---- MODULE Spec2Model ----
(***************************************************************************)
(* Model of the nutrition-profile service of what_to_eat:                  *)
(*   app/services/health_engine.py  - the target calculator                *)
(*   app/api/profile.py             - the profile handlers                 *)
(*   app/models/user.py             - the user_profiles / user_targets     *)
(*                                    tables                               *)
(*                                                                         *)
(* Conventions.                                                            *)
(*  - An Optional[T] value is a sequence of length <= 1: None is << >>,    *)
(*    Some(v) is <<v>>.                                                     *)
(*  - A float of the program with at most two decimals is the integer      *)
(*    number of hundredths (80.0 kg is 8000, 2403.0 kcal is 240300).       *)
(*  - A date is the tuple <<year, month, day>>.                            *)
(*  - Each request runs in its own session: the handler runs, then         *)
(*    get_db_session commits (or rolls back) and the response goes out     *)
(*    (app/core/database.py).  In Spec the requests are handled one at a   *)
(*    time: a handler is one action, enabled when no request is in         *)
(*    progress, and get_db_session is the step that ends the request.      *)
(*  - In SpecSessions requests overlap: every await of a handler is a step *)
(*    of its session, the database is PostgreSQL at READ COMMITTED (the    *)
(*    engine's default): a statement sees what is committed and what its   *)
(*    own session wrote, an UPDATE holds the row until its session ends,   *)
(*    an INSERT of a user_id another open session has inserted waits for   *)
(*    that session to end.                                                 *)
(***************************************************************************)
EXTENDS Integers, Sequences, FiniteSets, TLC

VARIABLES
    user_profiles,   \* table user_profiles: a set of rows
    user_targets,    \* table user_targets: its rows in insertion order
    profile_id_seq,  \* last value handed out for user_profiles.id
    targets_id_seq,  \* last value handed out for user_targets.id
    request,         \* the request in progress: [op, user, fields], fields the
                     \* names of the fields its body set; NoRequest between requests
    response,        \* the response its handler returned: [status, body]
    sessions,        \* the open AsyncSessions of requests that run concurrently
                     \* (SpecSessions): what each has loaded, written and not
                     \* yet committed, and the statement it is at
    targets_limit,   \* the number of user_targets ids a behaviour hands out at
                     \* most: a bound of the exploration, set by the initial
                     \* predicate and never changed
    calc,            \* the last call of a function of the calculator
                     \* (SpecCalculator): [fn, args, result]
    active,          \* ConnectionManager.active: the set of WebSockets
    _lock,           \* ConnectionManager._lock: the coroutine that holds it
    coroutines,      \* the coroutines running connect, disconnect or broadcast
                     \* (SpecConnections), each with the statement it is at
    websockets       \* of each WebSocket: accepted or not, the texts sent to it

vars == <<user_profiles, user_targets, profile_id_seq, targets_id_seq, request, response,
          sessions, targets_limit, calc, active, _lock, coroutines, websockets>>

\* the state of the ConnectionManager
connections == <<active, _lock, coroutines, websockets>>

\* what the ConnectionManager never touches: the database, the requests and
\* the calls of the calculator
database == <<user_profiles, user_targets, profile_id_seq, targets_id_seq, request, response,
              sessions, targets_limit, calc>>

tables == <<user_profiles, user_targets, profile_id_seq, targets_id_seq>>

(***************************************************************************)
(* Bounds of the model.                                                    *)
(***************************************************************************)
\* number of rows ever inserted into user_profiles
MaxProfiles == 2
\* number of rows ever inserted into user_targets
MaxTargets == 2
\* number of rows ever inserted into user_targets by requests that overlap
MaxSessionTargets == 3
\* number of rows ever inserted into user_targets by the requests of one user
MaxOneUserTargets == 3
\* number of texts ever sent to one WebSocket
MaxSent == 2

(***************************************************************************)
(* Optional values.                                                        *)
(***************************************************************************)
None == << >>

Some(v) == <<v>>

IsNone(o) == o = None

Opt(S) == {None} \cup {Some(v) : v \in S}

(***************************************************************************)
(* app/models/user.py: the enumerations.                                   *)
(***************************************************************************)
ActivityLevel == {"sedentary", "lightly_active", "moderately_active", "very_active", "athlete"}

Goal == {"cut", "maintain", "bulk", "recomp"}

Gender == {"male", "female"}

(***************************************************************************)
(* app/services/health_engine.py: the target calculator.                   *)
(* Quantities are hundredths; a multiplier is given in thousandths.        *)
(***************************************************************************)
\* round(n / d, 2) on the grid of hundredths: to the nearest hundredth.  At
\* an exact decimal tie the float result depends on the binary value of the
\* operand; the operator sends a tie to the even neighbour.  The quantities
\* the requests of Spec are drawn from produce no tie.
RoundDiv(n, d) ==
    LET q == n \div d
        r == n % d
    IN  IF 2 * r < d THEN q
        ELSE IF 2 * r > d THEN q + 1
        ELSE IF q % 2 = 0 THEN q ELSE q + 1

\* the multipliers of tests/test_health_engine.py TestCalculateTDEE
ACTIVITY_MULTIPLIER_of_tests(activity_level) ==
    CASE activity_level = "sedentary" -> 1200
      [] activity_level = "lightly_active" -> 1375
      [] activity_level = "moderately_active" -> 1550
      [] activity_level = "very_active" -> 1725
      [] activity_level = "athlete" -> 1900

ACTIVITY_MULTIPLIER(activity_level) ==
    CASE activity_level = "sedentary" -> 1000
      [] activity_level = "lightly_active" -> 1200
      [] activity_level = "moderately_active" -> 1350
      [] activity_level = "very_active" -> 1450
      [] activity_level = "athlete" -> 1800

GOAL_CALORIE_MULTIPLIER(goal) ==
    CASE goal = "cut" -> 825
      [] goal = "maintain" -> 1000
      [] goal = "bulk" -> 1150
      [] goal = "recomp" -> 1000

\* compares the months only
MonthDayBefore_month_only(a, b) == a[2] < b[2]

\* (today.month, today.day) < (date_of_birth.month, date_of_birth.day)
MonthDayBefore(a, b) == a[2] < b[2] \/ (a[2] = b[2] /\ a[3] < b[3])

calculate_age(date_of_birth, today) ==
    LET age == today[1] - date_of_birth[1]
    IN  IF MonthDayBefore(today, date_of_birth) THEN age - 1 ELSE age

\* calculate_bmr with another constant for women
calculate_bmr_female_160(weight_kg, height_cm, age_years, gender) ==
    LET base == 1000 * weight_kg + 625 * height_cm - 50000 * age_years
    IN  IF gender = "male" THEN RoundDiv(base + 50000, 100)
        ELSE RoundDiv(base - 1600000, 100)

calculate_bmr(weight_kg, height_cm, age_years, gender) ==
    \* base in units of 1/10000: 10 * weight + 6.25 * height - 5 * age
    LET base == 1000 * weight_kg + 625 * height_cm - 50000 * age_years
    IN  IF gender = "male" THEN RoundDiv(base + 50000, 100)
        ELSE RoundDiv(base - 1610000, 100)

calculate_tdee(bmr, activity_level) ==
    RoundDiv(bmr * ACTIVITY_MULTIPLIER(activity_level), 1000)

\* calculate_targets with carbs_g floored at 0, as calculate_manual_targets does
calculate_targets_carbs_floored(weight_kg, height_cm, age_years, gender, activity_level, goal) ==
    LET bmr == calculate_bmr(weight_kg, height_cm, age_years, gender)
        tdee == calculate_tdee(bmr, activity_level)
        calories == RoundDiv(tdee * GOAL_CALORIE_MULTIPLIER(goal), 1000)
        protein_g == RoundDiv(weight_kg * 22, 10)
        fat_g == RoundDiv(weight_kg * 8, 10)
        remaining_calories == calories - protein_g * 4 - fat_g * 9
        carbs_g == IF remaining_calories < 0 THEN 0 ELSE RoundDiv(remaining_calories, 4)
    IN  [calories |-> calories, protein_g |-> protein_g, fat_g |-> fat_g, carbs_g |-> carbs_g]

\* calculate_targets counting 4 kcal for a gram of fat when it derives carbs_g
calculate_targets_fat_4kcal(weight_kg, height_cm, age_years, gender, activity_level, goal) ==
    LET bmr == calculate_bmr(weight_kg, height_cm, age_years, gender)
        tdee == calculate_tdee(bmr, activity_level)
        calories == RoundDiv(tdee * GOAL_CALORIE_MULTIPLIER(goal), 1000)
        protein_g == RoundDiv(weight_kg * 22, 10)
        fat_g == RoundDiv(weight_kg * 8, 10)
        remaining_calories == calories - protein_g * 4 - fat_g * 4
        carbs_g == RoundDiv(remaining_calories, 4)
    IN  [calories |-> calories, protein_g |-> protein_g, fat_g |-> fat_g, carbs_g |-> carbs_g]

calculate_targets(weight_kg, height_cm, age_years, gender, activity_level, goal) ==
    LET bmr == calculate_bmr(weight_kg, height_cm, age_years, gender)
        tdee == calculate_tdee(bmr, activity_level)
        calories == RoundDiv(tdee * GOAL_CALORIE_MULTIPLIER(goal), 1000)
        protein_g == RoundDiv(weight_kg * 22, 10)
        fat_g == RoundDiv(weight_kg * 8, 10)
        remaining_calories == calories - protein_g * 4 - fat_g * 9
        carbs_g == RoundDiv(remaining_calories, 4)
    IN  [calories |-> calories, protein_g |-> protein_g, fat_g |-> fat_g, carbs_g |-> carbs_g]

Max(a, b) == IF a >= b THEN a ELSE b

\* calculate_manual_targets deriving carbs_g without the max(remaining, 0)
calculate_manual_targets_unclamped(calories, weight_kg, protein_g, fat_g, carbs_g) ==
    LET p == IF IsNone(protein_g) THEN RoundDiv(weight_kg * 22, 10) ELSE protein_g[1]
        f == IF IsNone(fat_g) THEN RoundDiv(weight_kg * 8, 10) ELSE fat_g[1]
        remaining == calories - p * 4 - f * 9
        c == IF IsNone(carbs_g) THEN RoundDiv(remaining, 4) ELSE carbs_g[1]
    IN  [calories |-> calories, protein_g |-> p, fat_g |-> f, carbs_g |-> c]

calculate_manual_targets(calories, weight_kg, protein_g, fat_g, carbs_g) ==
    LET p == IF IsNone(protein_g) THEN RoundDiv(weight_kg * 22, 10) ELSE protein_g[1]
        f == IF IsNone(fat_g) THEN RoundDiv(weight_kg * 8, 10) ELSE fat_g[1]
        remaining == calories - p * 4 - f * 9
        c == IF IsNone(carbs_g) THEN RoundDiv(Max(remaining, 0), 4) ELSE carbs_g[1]
    IN  [calories |-> calories, protein_g |-> p, fat_g |-> f, carbs_g |-> c]

(***************************************************************************)
(* The environment: the authenticated users, the clock and the values the  *)
(* requests are drawn from.                                                *)
(***************************************************************************)
Users == {"alice", "bob"}

\* date.today()
Today == <<2026, 2, 26>>

BirthDates == {<<1990, 1, 1>>}

Weights == {7000, 8000}

Heights == {18000}

InGender == {"male"}

InGoal == {"cut"}

InActivity == {"moderately_active"}

(***************************************************************************)
(* app/models/user.py: the tables.  A row of user_profiles holds each      *)
(* column as an Optional value, so that the NOT NULL constraints are       *)
(* something a flush can violate.                                          *)
(***************************************************************************)
ProfileFields == {"date_of_birth", "gender", "weight", "height", "goal", "activity_level"}

\* nullable=False columns of user_profiles that a request can set
NotNullFields == {"date_of_birth", "weight", "height"}

UserProfile(id, user_id, f) ==
    [id |-> id, user_id |-> user_id,
     date_of_birth |-> f.date_of_birth, gender |-> f.gender, weight |-> f.weight,
     height |-> f.height, goal |-> f.goal, activity_level |-> f.activity_level]

UserTargets(id, profile_id, t, based_on_weight, based_on_goal, is_manual) ==
    [id |-> id, profile_id |-> profile_id,
     calories |-> t.calories, protein_g |-> t.protein_g, carbs_g |-> t.carbs_g,
     fat_g |-> t.fat_g, calculated_at |-> Today,
     based_on_weight |-> based_on_weight, based_on_goal |-> based_on_goal,
     is_manual |-> is_manual]

\* the flush of a profile row fails (IntegrityError) when a NOT NULL column is None
NotNullViolated(profile) == \E f \in NotNullFields : IsNone(profile[f])

(***************************************************************************)
(* The queries of app/api/profile.py.                                      *)
(***************************************************************************)
\* a select without the where clause: some profile, of whatever user
SelectAnyProfile(user) ==
    IF user_profiles = {} THEN None ELSE Some(CHOOSE p \in user_profiles : TRUE)

\* select(UserProfile).where(UserProfile.user_id == current_user.id), scalar_one_or_none()
SelectProfile(user) ==
    LET rows == {p \in user_profiles : p.user_id = user}
    IN  IF rows = {} THEN None ELSE Some(CHOOSE p \in rows : TRUE)

\* the rows of every profile
WhereAnyProfile(rows, profile_id) == rows

\* select(UserTargets).where(UserTargets.profile_id == profile.id)
WhereProfile(rows, profile_id) == SelectSeq(rows, LAMBDA t : t.profile_id = profile_id)

RECURSIVE OrderByIdAsc(_)
\* .order_by(UserTargets.id), ascending
OrderByIdAsc(rows) ==
    IF rows = << >> THEN << >>
    ELSE LET i == CHOOSE k \in 1..Len(rows) : \A j \in 1..Len(rows) : rows[j].id >= rows[k].id
         IN  <<rows[i]>> \o OrderByIdAsc(SubSeq(rows, 1, i - 1) \o SubSeq(rows, i + 1, Len(rows)))

RECURSIVE OrderByIdDesc(_)
\* .order_by(UserTargets.id.desc())
OrderByIdDesc(rows) ==
    IF rows = << >> THEN << >>
    ELSE LET i == CHOOSE k \in 1..Len(rows) : \A j \in 1..Len(rows) : rows[j].id <= rows[k].id
         IN  <<rows[i]>> \o OrderByIdDesc(SubSeq(rows, 1, i - 1) \o SubSeq(rows, i + 1, Len(rows)))

\* .limit(1)
Limit1(rows) == IF rows = << >> THEN << >> ELSE <<rows[1]>>

(***************************************************************************)
(* app/api/profile.py: the recalculation policy.                           *)
(***************************************************************************)
\* _TARGET_FIELDS with the weight alone
TARGET_FIELDS_weight_only == {"weight"}

\* _TARGET_FIELDS with height taken for a target field too
TARGET_FIELDS_with_height == {"weight", "height", "goal", "gender", "activity_level", "date_of_birth"}

\* _TARGET_FIELDS without the gender
TARGET_FIELDS_without_gender == {"weight", "goal", "activity_level", "date_of_birth"}

\* _TARGET_FIELDS without the weight
TARGET_FIELDS_without_weight == {"goal", "gender", "activity_level", "date_of_birth"}

_TARGET_FIELDS == {"weight", "goal", "gender", "activity_level", "date_of_birth"}

\* _recalculate_targets without its db.add: it computes and inserts nothing
recalculate_targets_no_add(profile, id) == << >>

\* the rows _recalculate_targets adds to user_targets: none when gender,
\* activity_level or goal is None, else one computed snapshot with the given id
_recalculate_targets(profile, id) ==
    IF IsNone(profile.gender) \/ IsNone(profile.activity_level) \/ IsNone(profile.goal)
    THEN << >>
    ELSE LET age == calculate_age(profile.date_of_birth[1], Today)
             t == calculate_targets(profile.weight[1], profile.height[1], age,
                                    profile.gender[1], profile.activity_level[1],
                                    profile.goal[1])
         IN  <<UserTargets(id, profile.id, t, profile.weight[1], profile.goal[1], FALSE)>>

\* an insert that replaces the snapshots the profile had
AddTargetsReplacing(rows) ==
    /\ targets_id_seq + Len(rows) <= targets_limit
    /\ user_targets' = SelectSeq(user_targets,
                                 LAMBDA t : \A i \in 1..Len(rows) : rows[i].profile_id # t.profile_id)
                       \o rows
    /\ targets_id_seq' = targets_id_seq + Len(rows)

\* the insert of `rows` into user_targets, the id sequence advancing with each row
AddTargets(rows) ==
    /\ targets_id_seq + Len(rows) <= targets_limit
    /\ user_targets' = user_targets \o rows
    /\ targets_id_seq' = targets_id_seq + Len(rows)

NoRequest == [op |-> "none", user |-> "none", fields |-> {}]

NoResponse == [status |-> 0, body |-> << >>]

\* the handler of request (op, user, data) runs and returns (status, body)
Respond(op, user, data, status, body) ==
    /\ request' = [op |-> op, user |-> user, fields |-> DOMAIN data]
    /\ response' = [status |-> status, body |-> body]
    /\ UNCHANGED <<sessions, targets_limit, calc, connections>>

NoData == << >>

(***************************************************************************)
(* app/api/profile.py: the handlers.                                       *)
(***************************************************************************)
\* a creation that overwrites the fields of the profile the user has
create_profile_overwriting(user, data) ==
    /\ request = NoRequest
    /\ LET found == SelectProfile(user)
           id == IF IsNone(found) THEN profile_id_seq + 1 ELSE found[1].id
           profile == UserProfile(id, user, data)
       IN  /\ IsNone(found) => profile_id_seq < MaxProfiles
           /\ user_profiles' = {p \in user_profiles : p.user_id # user} \cup {profile}
           /\ profile_id_seq' = IF IsNone(found) THEN profile_id_seq + 1 ELSE profile_id_seq
           /\ AddTargets(_recalculate_targets(profile, targets_id_seq + 1))
           /\ Respond("create_profile", user, data, 201, <<profile>>)

\* POST /profile
create_profile(user, data) ==
    /\ request = NoRequest
    /\ IF ~IsNone(SelectProfile(user))
       THEN /\ Respond("create_profile", user, data, 409, << >>)
            /\ UNCHANGED tables
       ELSE LET profile == UserProfile(profile_id_seq + 1, user, data)
            IN  /\ profile_id_seq < MaxProfiles
                /\ user_profiles' = user_profiles \cup {profile}
                /\ profile_id_seq' = profile_id_seq + 1
                /\ AddTargets(_recalculate_targets(profile, targets_id_seq + 1))
                /\ Respond("create_profile", user, data, 201, <<profile>>)

\* GET /profile
get_profile(user) ==
    /\ request = NoRequest
    /\ LET found == SelectProfile(user)
       IN  /\ IF IsNone(found)
              THEN Respond("get_profile", user, NoData, 404, << >>)
              ELSE Respond("get_profile", user, NoData, 200, found)
           /\ UNCHANGED tables

\* a patch whose nulls are left out (model_dump(exclude_none=True))
SetAttrsExcludeNone(profile, update_data) ==
    [f \in DOMAIN profile |->
        IF f \in DOMAIN update_data /\ ~IsNone(update_data[f]) THEN update_data[f]
        ELSE profile[f]]

\* for field, value in update_data.items(): setattr(profile, field, value)
SetAttrs(profile, update_data) ==
    [f \in DOMAIN profile |-> IF f \in DOMAIN update_data THEN update_data[f] ELSE profile[f]]

\* a refresh that brings back the row as it was before the patch
RefreshStale(loaded, pending) == loaded

\* await db.flush(); await db.refresh(profile): the object holds what the
\* flush wrote, `pending`, no longer the row as it was loaded, `loaded`
Refresh(loaded, pending) == pending

\* an update_profile that recalculates when the value of a target field
\* changes, not when the patch names one
update_profile_on_change(user, data) ==
    /\ request = NoRequest
    /\ LET found == SelectProfile(user)
       IN  IF IsNone(found)
           THEN /\ Respond("update_profile", user, data, 404, << >>)
                /\ UNCHANGED tables
           ELSE LET pending == SetAttrs(found[1], data)
                    profile == Refresh(found[1], pending)
                    changed == {f \in DOMAIN data : data[f] # found[1][f]}
                IN  IF NotNullViolated(pending)
                    THEN /\ Respond("update_profile", user, data, 500, << >>)
                         /\ UNCHANGED tables
                    ELSE /\ user_profiles' = (user_profiles \ {found[1]}) \cup {pending}
                         /\ AddTargets(IF changed \cap _TARGET_FIELDS # {}
                                       THEN _recalculate_targets(profile, targets_id_seq + 1)
                                       ELSE << >>)
                         /\ Respond("update_profile", user, data, 200, <<profile>>)
                         /\ UNCHANGED profile_id_seq

\* PUT /profile
update_profile(user, data) ==
    /\ request = NoRequest
    /\ LET found == SelectProfile(user)
       IN  IF IsNone(found)
           THEN /\ Respond("update_profile", user, data, 404, << >>)
                /\ UNCHANGED tables
           ELSE LET pending == SetAttrs(found[1], data)
                    profile == Refresh(found[1], pending)
                IN  IF NotNullViolated(pending)
                    THEN \* db.flush() raises; get_db_session rolls the session back
                         /\ Respond("update_profile", user, data, 500, << >>)
                         /\ UNCHANGED tables
                    ELSE /\ user_profiles' = (user_profiles \ {found[1]}) \cup {pending}
                         /\ AddTargets(IF DOMAIN data \cap _TARGET_FIELDS # {}
                                       THEN _recalculate_targets(profile, targets_id_seq + 1)
                                       ELSE << >>)
                         /\ Respond("update_profile", user, data, 200, <<profile>>)
                         /\ UNCHANGED profile_id_seq

\* a delete of the profile row that leaves the rows of user_targets in place
CascadeNothing(rows, profile_id) == rows

\* a delete that cascades to the snapshots of every profile
CascadeDeleteAll(rows, profile_id) == << >>

\* relationship UserProfile.targets, cascade="all, delete-orphan": the rows
\* of user_targets left when the profile with this id is deleted
CascadeDelete(rows, profile_id) == SelectSeq(rows, LAMBDA t : t.profile_id # profile_id)

\* DELETE /profile
delete_profile(user) ==
    /\ request = NoRequest
    /\ LET found == SelectProfile(user)
       IN  IF IsNone(found)
           THEN /\ Respond("delete_profile", user, NoData, 404, << >>)
                /\ UNCHANGED tables
           ELSE /\ user_profiles' = user_profiles \ {found[1]}
                /\ user_targets' = CascadeDelete(user_targets, found[1].id)
                /\ Respond("delete_profile", user, NoData, 204, << >>)
                /\ UNCHANGED <<profile_id_seq, targets_id_seq>>

\* GET /profile/targets
get_current_targets(user) ==
    /\ request = NoRequest
    /\ LET found == SelectProfile(user)
       IN  /\ IF IsNone(found)
              THEN Respond("get_current_targets", user, NoData, 404, << >>)
              ELSE LET targets == Limit1(OrderByIdDesc(WhereProfile(user_targets, found[1].id)))
                   IN  IF IsNone(targets)
                       THEN Respond("get_current_targets", user, NoData, 404, << >>)
                       ELSE Respond("get_current_targets", user, NoData, 200, targets)
           /\ UNCHANGED tables

\* a validation of the calories alone
ValidOverrideCaloriesOnly(data) == ~IsNone(data.calories) /\ data.calories[1] > 0

\* app/schemas/health.py UserTargetsOverride: calories required and > 0,
\* protein_g, fat_g, carbs_g > 0 when given
ValidOverride(data) ==
    /\ ~IsNone(data.calories) /\ data.calories[1] > 0
    /\ \A f \in {"protein_g", "fat_g", "carbs_g"} : IsNone(data[f]) \/ data[f][1] > 0

\* the goal denormalised as "manual" whatever the profile's goal
ManualBasedOnGoalAlways(profile) == "manual"

\* profile.goal.value if profile.goal else "manual"
ManualBasedOnGoal(profile) == IF IsNone(profile.goal) THEN "manual" ELSE profile.goal[1]

\* PUT /profile/targets
override_targets(user, data) ==
    /\ request = NoRequest
    /\ LET found == SelectProfile(user)
       IN  IF ~ValidOverride(data)
           THEN /\ Respond("override_targets", user, data, 422, << >>)
                /\ UNCHANGED tables
           ELSE IF IsNone(found)
           THEN /\ Respond("override_targets", user, data, 404, << >>)
                /\ UNCHANGED tables
           ELSE LET profile == found[1]
                    t == calculate_manual_targets(data.calories[1], profile.weight[1],
                                                  data.protein_g, data.fat_g, data.carbs_g)
                    targets == UserTargets(targets_id_seq + 1, profile.id, t, profile.weight[1],
                                           ManualBasedOnGoal(profile), TRUE)
                IN  /\ AddTargets(<<targets>>)
                    /\ Respond("override_targets", user, data, 200, <<targets>>)
                    /\ UNCHANGED <<user_profiles, profile_id_seq>>

\* GET /profile/targets/history
get_targets_history(user) ==
    /\ request = NoRequest
    /\ LET found == SelectProfile(user)
       IN  /\ IF IsNone(found)
              THEN Respond("get_targets_history", user, NoData, 404, << >>)
              ELSE Respond("get_targets_history", user, NoData, 200,
                           OrderByIdDesc(WhereProfile(user_targets, found[1].id)))
           /\ UNCHANGED tables

\* app/core/database.py: the session of the request ends.  After a handler
\* that returned, the session is committed; after one that raised, it is
\* rolled back (the handler's action left the tables as they were).
get_db_session ==
    /\ request # NoRequest
    /\ request' = NoRequest
    /\ response' = NoResponse
    /\ UNCHANGED <<tables, sessions, targets_limit, calc, connections>>

(***************************************************************************)
(* Requests that overlap (SpecSessions).  app/core/database.py hands each  *)
(* request its own AsyncSession; the handler's awaits are the steps below, *)
(* and the session commits when the handler returns, rolls back when it    *)
(* raises.  user_profiles and user_targets hold what is committed; a       *)
(* session holds what it wrote and has not committed.                      *)
(***************************************************************************)
\* AsyncSessionLocal(): the sessions that can be open at the same time
Sessions == {"s1", "s2"}

\* a session: the request it serves (op, user, data), the statement it is at
\* (pc), the profile row as the select loaded it (loaded), the profile object
\* after the refresh (profile), the user_profiles row it inserted or updated
\* (written), the user_targets rows it added (added), the status of the
\* response, the value of the user_targets id sequence when it selected
\* (seen) and the sessions that were running a handler at that moment and
\* have not been closed since (met)
ClosedSession ==
    [op |-> "none", user |-> "none", data |-> << >>, pc |-> "closed", loaded |-> None,
     profile |-> None, written |-> None, added |-> << >>, status |-> 0, seen |-> 0,
     met |-> {}]

\* the sessions other than s whose handler is running
Running(s) == {o \in Sessions \ {s} : sessions[o].pc \notin {"closed", "done"}}

\* the step of session s: its fields change as `changes` says (a function on
\* some of the field names)
SessionStep(s, changes) ==
    /\ sessions' = [sessions EXCEPT ![s] =
                       [f \in DOMAIN @ |-> IF f \in DOMAIN changes THEN changes[f] ELSE @[f]]]
    /\ UNCHANGED <<request, response, targets_limit, calc, connections>>

\* a get_db_session that commits after an exception too
RaiseCommitting(s, status) == SessionStep(s, [pc |-> "commit", status |-> status])

\* the session raises: get_db_session will roll back, the response is `status`
Raise(s, status) == SessionStep(s, [pc |-> "rollback", status |-> status])

\* another open session has written (and not committed) a row of user_profiles
\* with this value in this column, the one session s is about to write: the
\* statement of s waits
RowHeldByOther(s, column, value) ==
    \E o \in Sessions \ {s} : ~IsNone(sessions[o].written) /\ sessions[o].written[1][column] = value

\* create_profile up to its first await: the select of the existing profile
\* and the 409
create_profile_select(s, user, data) ==
    /\ sessions[s].pc = "closed"
    /\ IF ~IsNone(SelectProfile(user))
       THEN SessionStep(s, [op |-> "create_profile", user |-> user, data |-> data,
                            pc |-> "rollback", status |-> 409, seen |-> targets_id_seq,
                            met |-> Running(s)])
       ELSE SessionStep(s, [op |-> "create_profile", user |-> user, data |-> data,
                            pc |-> "flush", seen |-> targets_id_seq,
                            met |-> Running(s)])
    /\ UNCHANGED tables

\* an index that lets every user_id in
UniqueViolationNever(user_id) == FALSE

\* user_id = mapped_column(..., unique=True): the INSERT of a row with this
\* user_id fails (IntegrityError) when a committed row has it
UniqueViolation(user_id) == \E p \in user_profiles : p.user_id = user_id

\* db.add(profile); await db.flush(); await db.refresh(profile): the INSERT
\* takes the next id, waits for an open session that inserted the same
\* user_id, and fails on the unique index when a row of that user is committed
create_profile_flush(s) ==
    LET self == sessions[s]
        profile == UserProfile(profile_id_seq + 1, self.user, self.data)
    IN  /\ self.op = "create_profile" /\ self.pc = "flush"
        /\ ~RowHeldByOther(s, "user_id", self.user)
        /\ profile_id_seq < MaxProfiles
        /\ profile_id_seq' = profile_id_seq + 1
        /\ IF UniqueViolation(self.user)
           THEN Raise(s, 500)
           ELSE SessionStep(s, [pc |-> "recalculate", written |-> Some(profile),
                                profile |-> Some(profile), status |-> 201])
        /\ UNCHANGED <<user_profiles, user_targets, targets_id_seq>>

\* update_profile up to its first await: the select of the profile and the 404
update_profile_select(s, user, data) ==
    /\ sessions[s].pc = "closed"
    /\ LET found == SelectProfile(user)
       IN  IF IsNone(found)
           THEN SessionStep(s, [op |-> "update_profile", user |-> user, data |-> data,
                                pc |-> "rollback", status |-> 404, seen |-> targets_id_seq,
                            met |-> Running(s)])
           ELSE SessionStep(s, [op |-> "update_profile", user |-> user, data |-> data,
                                pc |-> "flush", loaded |-> found, seen |-> targets_id_seq,
                            met |-> Running(s)])
    /\ UNCHANGED tables

\* the attributes whose setattr changed the loaded object: the flush writes
\* these columns and no other, and writes nothing when there is none
ChangedAttrs(loaded, update_data) == {f \in DOMAIN update_data : update_data[f] # loaded[f]}

\* the row of user_profiles with this id, as committed
CommittedRow(id) == CHOOSE p \in user_profiles : p.id = id

\* setattr ...; await db.flush(): the UPDATE of the changed columns of the row,
\* which waits for an open session that updated the row and then applies to
\* the row as committed
update_profile_flush(s) ==
    LET self == sessions[s]
        changed == ChangedAttrs(self.loaded[1], self.data)
        row == CommittedRow(self.loaded[1].id)
        updated == [f \in DOMAIN row |-> IF f \in changed THEN self.data[f] ELSE row[f]]
    IN  /\ self.op = "update_profile" /\ self.pc = "flush"
        /\ IF changed = {}
           THEN SessionStep(s, [pc |-> "refresh"])
           ELSE /\ ~RowHeldByOther(s, "id", self.loaded[1].id)
                /\ IF NotNullViolated(updated)
                   THEN Raise(s, 500)
                   ELSE SessionStep(s, [pc |-> "refresh", written |-> Some(updated)])
        /\ UNCHANGED tables

\* await db.refresh(profile): the row as this session sees it, and the test
\* update_data.keys() & _TARGET_FIELDS
update_profile_refresh(s) ==
    LET self == sessions[s]
        profile == IF IsNone(self.written) THEN CommittedRow(self.loaded[1].id)
                   ELSE self.written[1]
    IN  /\ self.op = "update_profile" /\ self.pc = "refresh"
        /\ SessionStep(s, [profile |-> Some(profile), status |-> 200,
                           pc |-> IF DOMAIN self.data \cap _TARGET_FIELDS # {}
                                  THEN "recalculate" ELSE "commit"])
        /\ UNCHANGED tables

\* await _recalculate_targets(profile, db): the INSERT into user_targets
\* takes the next id of the sequence
recalculate_targets_flush(s) ==
    LET self == sessions[s]
        rows == _recalculate_targets(self.profile[1], targets_id_seq + 1)
    IN  /\ self.pc = "recalculate"
        /\ targets_id_seq + Len(rows) <= MaxSessionTargets
        /\ targets_id_seq' = targets_id_seq + Len(rows)
        /\ SessionStep(s, [pc |-> "commit", added |-> rows])
        /\ UNCHANGED <<user_profiles, user_targets, profile_id_seq>>

\* await db.flush() of _recalculate_targets raises (the INSERT into
\* user_targets fails: the connection is lost, the statement times out): the
\* handler raises after its INSERT or UPDATE of user_profiles
recalculate_targets_flush_fails(s) ==
    LET self == sessions[s]
        rows == _recalculate_targets(self.profile[1], targets_id_seq + 1)
    IN  /\ self.pc = "recalculate"
        /\ rows # << >>
        /\ Raise(s, 500)
        /\ UNCHANGED tables

\* await session.commit(): what the session wrote becomes the committed state
session_commit(s) ==
    LET self == sessions[s]
    IN  /\ self.pc = "commit"
        /\ user_profiles' = IF IsNone(self.written) THEN user_profiles
                            ELSE {p \in user_profiles : p.id # self.written[1].id}
                                 \cup {self.written[1]}
        /\ user_targets' = user_targets \o self.added
        /\ SessionStep(s, [pc |-> "done", written |-> None])
        /\ UNCHANGED <<profile_id_seq, targets_id_seq>>

\* await session.rollback(): what the session wrote is dropped
session_rollback(s) ==
    /\ sessions[s].pc = "rollback"
    /\ SessionStep(s, [pc |-> "done", written |-> None, added |-> << >>])
    /\ UNCHANGED tables

\* the end of `async with AsyncSessionLocal() as session`, the response sent
session_close(s) ==
    /\ sessions[s].pc = "done"
    /\ sessions' = [o \in Sessions |-> IF o = s THEN ClosedSession
                                       ELSE [sessions[o] EXCEPT !.met = @ \ {s}]]
    /\ UNCHANGED <<tables, request, response, targets_limit, calc, connections>>

(***************************************************************************)
(* Calls of the calculator (SpecCalculator): app/services/health_engine.py *)
(* called with arguments of bounded sets, one call at a time, the call and *)
(* its result kept in calc until the caller takes the result.              *)
(***************************************************************************)
NoCall == [fn |-> "none", args |-> << >>, result |-> << >>]

\* fn(args) has returned result
Call(fn, args, result) ==
    /\ calc' = [fn |-> fn, args |-> args, result |-> result]
    /\ UNCHANGED <<tables, request, response, sessions, targets_limit, connections>>

\* the arguments of the calls.  Weights in whole kilograms and heights in
\* half centimetres are exact as floats, and so is the base of calculate_bmr.
CalcWeights == {4000, 6000, 7000, 8000, 20000}

CalcHeights == {15000, 16550, 17000, 17500, 18000}

CalcAges == {25, 30, 60}

CalcBmrs == {118938, 134525, 150000, 178000}

CalcBirthDates == {<<1990, 1, 1>>, <<1990, 2, 26>>, <<1990, 2, 27>>, <<2000, 2, 29>>, <<2020, 6, 15>>}

CalcToday == {<<2026, 2, 26>>, <<2026, 2, 28>>, <<2026, 3, 1>>, <<2024, 2, 29>>, <<2025, 12, 31>>}

\* n / d lies halfway between two hundredths.  round( , 2) of a float looks at
\* its binary value: on a product or quotient of floats that is a decimal tie
\* the result can be either neighbour, so SpecCalculator leaves the arguments
\* with such a step out; on the other arguments RoundDiv is the float result.
Tie(n, d) == 2 * (n % d) = d

\* a rounding of calculate_tdee(bmr, activity_level) is at a decimal tie
TdeeAtTie(bmr, activity_level) == Tie(bmr * ACTIVITY_MULTIPLIER(activity_level), 1000)

\* a rounding of calculate_targets is at a decimal tie
TargetsAtTie(weight_kg, height_cm, age_years, gender, activity_level, goal) ==
    LET bmr == calculate_bmr(weight_kg, height_cm, age_years, gender)
        tdee == calculate_tdee(bmr, activity_level)
        t == calculate_targets(weight_kg, height_cm, age_years, gender, activity_level, goal)
    IN  \/ TdeeAtTie(bmr, activity_level)
        \/ Tie(tdee * GOAL_CALORIE_MULTIPLIER(goal), 1000)
        \/ Tie(t.calories - t.protein_g * 4 - t.fat_g * 9, 4)

call_calculate_age(date_of_birth, today) ==
    /\ calc = NoCall
    /\ Call("calculate_age", <<date_of_birth, today>>, calculate_age(date_of_birth, today))

call_calculate_bmr(weight_kg, height_cm, age_years, gender) ==
    /\ calc = NoCall
    /\ Call("calculate_bmr", <<weight_kg, height_cm, age_years, gender>>,
            calculate_bmr(weight_kg, height_cm, age_years, gender))

call_calculate_tdee(bmr, activity_level) ==
    /\ calc = NoCall
    /\ ~TdeeAtTie(bmr, activity_level)
    /\ Call("calculate_tdee", <<bmr, activity_level>>, calculate_tdee(bmr, activity_level))

call_calculate_targets(weight_kg, height_cm, age_years, gender, activity_level, goal) ==
    /\ calc = NoCall
    /\ ~TargetsAtTie(weight_kg, height_cm, age_years, gender, activity_level, goal)
    /\ Call("calculate_targets",
            <<weight_kg, height_cm, age_years, gender, activity_level, goal>>,
            calculate_targets(weight_kg, height_cm, age_years, gender, activity_level, goal))

(***************************************************************************)
(* app/services/connection_manager.py: the ConnectionManager and the       *)
(* coroutines one event loop runs on it (SpecConnections).  A coroutine    *)
(* runs uninterrupted from one await to the next; its awaits are           *)
(* ws.accept(), the acquisition of the lock and ws.send_text().  The       *)
(* WebSockets accept and send without raising, as the sockets of           *)
(* tests/test_services.py do, and a WebSocket is accepted once.            *)
(***************************************************************************)
WebSockets == {"ws1", "ws2", "ws3"}

\* the coroutines that run at the same time
Coroutines == {"c1", "c2"}

Messages == {"hello"}

NoCoroutine == "none"

NoWebSocket == "none"

\* a WebSocket no connect has been called with
NewWebSocket == [accepted |-> FALSE, sent |-> << >>]

\* a coroutine that is not running.  Of a running one: the method, the
\* statement it is at, its arguments, broadcast's list(self.active) and the
\* number of sockets of the list it has sent to; sent_before is what the
\* sockets had been sent when broadcast took the lock, kept for the properties
IdleCoroutine ==
    [fn |-> "none", pc |-> "idle", ws |-> NoWebSocket, message |-> "",
     list |-> << >>, sent |-> 0, sent_before |-> << >>]

\* self.active = set(), self._lock = asyncio.Lock()
ConnectionManager ==
    /\ active = {}
    /\ _lock = NoCoroutine
    /\ coroutines = [c \in Coroutines |-> IdleCoroutine]
    /\ websockets = [ws \in WebSockets |-> NewWebSocket]

\* f"Response: {message}"
ResponseText(message) == "Response: " \o message

\* list(s): the elements of the set s, each once, in some order
Lists(s) ==
    {l \in [1..Cardinality(s) -> s] : \A i, j \in 1..Cardinality(s) : l[i] = l[j] => i = j}

\* a lock that excludes nothing
AcquirableAlways == TRUE

\* async with self._lock: the lock is taken when no coroutine holds it
Acquirable == _lock = NoCoroutine

\* the coroutine returns to its caller
Return(c) == [coroutines EXCEPT ![c].pc = "returned"]

\* connect, up to the lock: await ws.accept()
connect_accept(c, ws) ==
    /\ coroutines[c].pc = "idle"
    /\ ~websockets[ws].accepted
    /\ websockets' = [websockets EXCEPT ![ws].accepted = TRUE]
    /\ coroutines' = [coroutines EXCEPT ![c] = [IdleCoroutine EXCEPT !.fn = "connect",
                                                   !.pc = "lock", !.ws = ws]]
    /\ UNCHANGED <<active, _lock, database>>

\* connect, under the lock: self.active.add(ws)
connect_add(c) ==
    /\ coroutines[c].fn = "connect" /\ coroutines[c].pc = "lock"
    /\ Acquirable
    /\ active' = active \cup {coroutines[c].ws}
    /\ coroutines' = Return(c)
    /\ UNCHANGED <<_lock, websockets, database>>

\* disconnect is called and comes to the lock
disconnect(c, ws) ==
    /\ coroutines[c].pc = "idle"
    /\ coroutines' = [coroutines EXCEPT ![c] = [IdleCoroutine EXCEPT !.fn = "disconnect",
                                                   !.pc = "lock", !.ws = ws]]
    /\ UNCHANGED <<active, _lock, websockets, database>>

\* disconnect, under the lock: self.active.discard(ws)
disconnect_discard(c) ==
    /\ coroutines[c].fn = "disconnect" /\ coroutines[c].pc = "lock"
    /\ Acquirable
    /\ active' = active \ {coroutines[c].ws}
    /\ coroutines' = Return(c)
    /\ UNCHANGED <<_lock, websockets, database>>

\* broadcast is called and comes to the lock
broadcast(c, message) ==
    /\ coroutines[c].pc = "idle"
    /\ coroutines' = [coroutines EXCEPT ![c] = [IdleCoroutine EXCEPT !.fn = "broadcast",
                                                   !.pc = "lock", !.message = message]]
    /\ UNCHANGED <<active, _lock, websockets, database>>

\* broadcast takes the lock and lists the active set; with nothing to send
\* it releases the lock and returns.  The sockets of the list have room for
\* one more text (MaxSent bounds what a behaviour sends to a socket).
broadcast_list(c) ==
    /\ coroutines[c].fn = "broadcast" /\ coroutines[c].pc = "lock"
    /\ Acquirable
    /\ \A ws \in active : Len(websockets[ws].sent) < MaxSent
    /\ \E l \in Lists(active) :
          IF active = {}
          THEN /\ coroutines' = [coroutines EXCEPT ![c].pc = "returned",
                                     ![c].sent_before = [ws \in WebSockets |-> websockets[ws].sent]]
               /\ UNCHANGED _lock
          ELSE /\ coroutines' = [coroutines EXCEPT ![c].pc = "send", ![c].list = l,
                                     ![c].sent_before = [ws \in WebSockets |-> websockets[ws].sent]]
               /\ _lock' = c
    /\ UNCHANGED <<active, websockets, database>>

\* await ws.send_text(f"Response: {message}") of the next socket of the list;
\* after the last one broadcast releases the lock and returns
broadcast_send_text(c) ==
    /\ coroutines[c].pc = "send"
    /\ LET ws == coroutines[c].list[coroutines[c].sent + 1]
           last == coroutines[c].sent + 1 = Cardinality(DOMAIN coroutines[c].list)
       IN  /\ websockets' = [websockets EXCEPT ![ws].sent =
                                 Append(@, ResponseText(coroutines[c].message))]
           /\ coroutines' = [coroutines EXCEPT ![c].sent = @ + 1,
                                 ![c].pc = IF last THEN "returned" ELSE "send"]
           /\ _lock' = IF last THEN NoCoroutine ELSE _lock
    /\ UNCHANGED <<active, database>>

\* the caller has taken the return of the coroutine
coroutine_return(c) ==
    /\ coroutines[c].pc = "returned"
    /\ coroutines' = [coroutines EXCEPT ![c] = IdleCoroutine]
    /\ UNCHANGED <<active, _lock, websockets, database>>

NextConnections ==
    \E c \in Coroutines :
        \/ \E ws \in WebSockets : connect_accept(c, ws)
        \/ connect_add(c)
        \/ \E ws \in WebSockets : disconnect(c, ws)
        \/ disconnect_discard(c)
        \/ \E message \in Messages : broadcast(c, message)
        \/ broadcast_list(c)
        \/ broadcast_send_text(c)
        \/ coroutine_return(c)

(***************************************************************************)
(* The requests of the model.                                              *)
(***************************************************************************)
\* UserProfileCreate: date_of_birth, weight and height are required
CreateInputs ==
    [date_of_birth : {Some(d) : d \in BirthDates}, gender : Opt(InGender),
     weight : {Some(w) : w \in Weights}, height : {Some(h) : h \in Heights},
     goal : Opt(InGoal), activity_level : Opt(InActivity)]

\* what a field of UserProfileUpdate accepts: every field is Optional
FieldValues(f) ==
    CASE f = "date_of_birth" -> Opt(BirthDates)
      [] f = "gender" -> Opt(InGender)
      [] f = "weight" -> Opt(Weights)
      [] f = "height" -> Opt(Heights)
      [] f = "goal" -> Opt(InGoal)
      [] f = "activity_level" -> Opt(InActivity)

\* the sets of fields a patch of the model sets (model_dump(exclude_unset=True))
PatchDomains ==
    {{}} \cup {{f} : f \in ProfileFields}
         \cup {{"height", "weight"}}

\* The second user is there to put rows of another profile into the tables:
\* its requests are drawn from smaller sets.
CreateInputsOf(user) ==
    IF user = "alice" THEN CreateInputs
    ELSE {r \in CreateInputs : r.weight = Some(8000) /\ r.gender = Some("male")
                                /\ r.goal = Some("cut") /\ ~IsNone(r.activity_level)}

PatchDomainsOf(user) == IF user = "alice" THEN PatchDomains ELSE {{"weight"}}

\* a value for every field, those outside D fixed to None
PatchTemplates(D) ==
    [date_of_birth : IF "date_of_birth" \in D THEN FieldValues("date_of_birth") ELSE {None},
     gender : IF "gender" \in D THEN FieldValues("gender") ELSE {None},
     weight : IF "weight" \in D THEN FieldValues("weight") ELSE {None},
     height : IF "height" \in D THEN FieldValues("height") ELSE {None},
     goal : IF "goal" \in D THEN FieldValues("goal") ELSE {None},
     activity_level : IF "activity_level" \in D THEN FieldValues("activity_level") ELSE {None}]

\* UserProfileUpdate.model_dump(exclude_unset=True): the fields the request set
ModelDump(D, template) == [f \in D |-> template[f]]

OverrideInputs ==
    [calories : {None, Some(0), Some(50000)}, protein_g : {None, Some(0)},
     fat_g : {None, Some(0)}, carbs_g : {None, Some(0)}]

Init ==
    /\ user_profiles = {}
    /\ user_targets = << >>
    /\ profile_id_seq = 0
    /\ targets_id_seq = 0
    /\ request = NoRequest
    /\ response = NoResponse
    /\ sessions = [s \in Sessions |-> ClosedSession]
    /\ targets_limit = MaxTargets
    /\ calc = NoCall
    /\ ConnectionManager

Next ==
    \/ get_db_session
    \/ \E user \in Users :
        \/ \E data \in CreateInputsOf(user) : create_profile(user, data)
        \/ get_profile(user)
        \/ \E D \in PatchDomainsOf(user) : \E template \in PatchTemplates(D) :
               update_profile(user, ModelDump(D, template))
        \/ delete_profile(user)
        \/ get_current_targets(user)
        \/ \E data \in OverrideInputs : override_targets(user, data)
        \/ get_targets_history(user)

Spec == Init /\ [][Next]_vars

SpecConnections == Init /\ [][NextConnections]_vars

\* the requests that overlap: creations with goal and activity level set, and
\* patches of the weight or of the gender
SessionCreateInputs(user) ==
    {data \in CreateInputsOf(user) :
        ~IsNone(data.goal) /\ ~IsNone(data.activity_level) /\ data.weight = Some(7000)}

SessionPatches(user) ==
    {data \in UNION {{ModelDump(D, template) : template \in PatchTemplates(D)} :
                        D \in {{"weight"}, {"gender"}} \cap PatchDomainsOf(user)} :
        "gender" \in DOMAIN data => ~IsNone(data.gender)}

NextSessions ==
    \E s \in Sessions :
        \/ \E user \in Users : \E data \in SessionCreateInputs(user) :
               create_profile_select(s, user, data)
        \/ create_profile_flush(s)
        \/ \E user \in Users : \E data \in SessionPatches(user) :
               update_profile_select(s, user, data)
        \/ update_profile_flush(s)
        \/ update_profile_refresh(s)
        \/ recalculate_targets_flush(s)
        \/ recalculate_targets_flush_fails(s)
        \/ session_commit(s)
        \/ session_rollback(s)
        \/ session_close(s)

SpecSessions == Init /\ [][NextSessions]_vars

\* the arguments of calculate_manual_targets: the calories and macros of
\* TestCalculateManualTargets, and 2000.01 for a remainder that is rounded
CalcCalories == {50000, 200000, 200001, 250000}

CalcManualWeights == {7000, 8000}

CalcProtein == {None, Some(18000), Some(20000)}

CalcFat == {None, Some(6000), Some(7000)}

CalcCarbs == {None, Some(25000), Some(30000)}

\* the derived carbs_g of calculate_manual_targets is at a decimal tie
ManualAtTie(calories, weight_kg, protein_g, fat_g, carbs_g) ==
    LET p == IF IsNone(protein_g) THEN RoundDiv(weight_kg * 22, 10) ELSE protein_g[1]
        f == IF IsNone(fat_g) THEN RoundDiv(weight_kg * 8, 10) ELSE fat_g[1]
    IN  IsNone(carbs_g) /\ Tie(Max(calories - p * 4 - f * 9, 0), 4)

call_calculate_manual_targets(calories, weight_kg, protein_g, fat_g, carbs_g) ==
    /\ calc = NoCall
    /\ ~ManualAtTie(calories, weight_kg, protein_g, fat_g, carbs_g)
    /\ Call("calculate_manual_targets", <<calories, weight_kg, protein_g, fat_g, carbs_g>>,
            calculate_manual_targets(calories, weight_kg, protein_g, fat_g, carbs_g))

\* the caller has taken the result
call_return ==
    /\ calc # NoCall
    /\ calc' = NoCall
    /\ UNCHANGED <<tables, request, response, sessions, targets_limit, connections>>

NextCalculator ==
    \/ call_return
    \/ \E date_of_birth \in CalcBirthDates : \E today \in CalcToday :
           call_calculate_age(date_of_birth, today)
    \/ \E weight_kg \in CalcWeights : \E height_cm \in CalcHeights :
       \E age_years \in CalcAges : \E gender \in Gender :
           \/ call_calculate_bmr(weight_kg, height_cm, age_years, gender)
           \/ \E activity_level \in ActivityLevel : \E goal \in Goal :
                  call_calculate_targets(weight_kg, height_cm, age_years, gender,
                                         activity_level, goal)
    \/ \E bmr \in CalcBmrs : \E activity_level \in ActivityLevel :
           call_calculate_tdee(bmr, activity_level)
    \/ \E calories \in CalcCalories : \E weight_kg \in CalcManualWeights :
       \E protein_g \in CalcProtein : \E fat_g \in CalcFat : \E carbs_g \in CalcCarbs :
           call_calculate_manual_targets(calories, weight_kg, protein_g, fat_g, carbs_g)

SpecCalculator == Init /\ [][NextCalculator]_vars

(***************************************************************************)
(* One client that sends the requests of                                   *)
(* tests/test_health_engine.py TestTargetsOverride, extended to the        *)
(* sequence create, update weight, update goal, override, update weight,   *)
(* then reads the history (SpecScenario).  The client sends its next       *)
(* request when the previous one is answered; the request it is at is the  *)
(* number of snapshots inserted so far.                                    *)
(***************************************************************************)
ScenarioUser == "alice"

\* PROFILE_PAYLOAD: a profile with gender, goal and activity level
ScenarioCreateInputs ==
    {data \in CreateInputs :
        ~IsNone(data.gender) /\ ~IsNone(data.goal) /\ ~IsNone(data.activity_level)}

\* json={"weight": ...}
ScenarioWeightPatches == {[weight |-> Some(w)] : w \in Weights}

\* json={"goal": ...}
ScenarioGoalPatches == {[goal |-> Some(g)] : g \in Goal}

\* json={"calories": ...} and json={"calories": ..., "protein_g": ...}
ScenarioOverrides ==
    [calories : {Some(50000), Some(180000)}, protein_g : {None, Some(15000)},
     fat_g : {None}, carbs_g : {None}]

\* the sequence of the client
Scenario ==
    <<"create_profile", "update_profile weight", "update_profile goal", "override_targets",
      "update_profile weight", "get_targets_history">>

\* the client is at a request of this name
ScenarioAt(name) ==
    /\ targets_id_seq + 1 <= Len(Scenario)
    /\ Scenario[targets_id_seq + 1] = name

scenario_create_profile ==
    /\ ScenarioAt("create_profile")
    /\ \E data \in ScenarioCreateInputs : create_profile(ScenarioUser, data)

scenario_update_weight ==
    /\ ScenarioAt("update_profile weight")
    /\ \E data \in ScenarioWeightPatches : update_profile(ScenarioUser, data)

scenario_update_goal ==
    /\ ScenarioAt("update_profile goal")
    /\ \E data \in ScenarioGoalPatches : update_profile(ScenarioUser, data)

scenario_override_targets ==
    /\ ScenarioAt("override_targets")
    /\ \E data \in ScenarioOverrides : override_targets(ScenarioUser, data)

scenario_get_targets_history ==
    /\ ScenarioAt("get_targets_history")
    /\ get_targets_history(ScenarioUser)

InitScenario ==
    /\ user_profiles = {}
    /\ user_targets = << >>
    /\ profile_id_seq = 0
    /\ targets_id_seq = 0
    /\ request = NoRequest
    /\ response = NoResponse
    /\ sessions = [s \in Sessions |-> ClosedSession]
    /\ targets_limit = Len(Scenario) - 1
    /\ calc = NoCall
    /\ ConnectionManager

NextScenario ==
    \/ get_db_session
    \/ scenario_create_profile
    \/ scenario_update_weight
    \/ scenario_update_goal
    \/ scenario_override_targets
    \/ scenario_get_targets_history

SpecScenario == InitScenario /\ [][NextScenario]_vars

(***************************************************************************)
(* One user whose requests come in any order and change the goal between   *)
(* two values (SpecOneUser): the handlers of app/api/profile.py with a     *)
(* profile that is created with or without gender and goal, patched on its *)
(* goal, its weight or its gender, overridden, deleted.                     *)
(***************************************************************************)
OneUser == "alice"

OneUserGoals == {"cut", "bulk"}

OneUserCreateInputs ==
    [date_of_birth : {Some(d) : d \in BirthDates}, gender : Opt(InGender),
     weight : {Some(7000)}, height : {Some(h) : h \in Heights},
     goal : Opt(OneUserGoals), activity_level : {Some(a) : a \in InActivity}]

\* model_dump(exclude_unset=True) of the patches of this user
OneUserPatches ==
    {[goal |-> g] : g \in Opt(OneUserGoals)}
        \cup {[weight |-> Some(w)] : w \in Weights}
        \cup {[gender |-> g] : g \in Opt(InGender)}

OneUserOverrides ==
    [calories : {Some(50000)}, protein_g : {None}, fat_g : {None}, carbs_g : {None}]

InitOneUser ==
    /\ user_profiles = {}
    /\ user_targets = << >>
    /\ profile_id_seq = 0
    /\ targets_id_seq = 0
    /\ request = NoRequest
    /\ response = NoResponse
    /\ sessions = [s \in Sessions |-> ClosedSession]
    /\ targets_limit = MaxOneUserTargets
    /\ calc = NoCall
    /\ ConnectionManager

NextOneUser ==
    \/ get_db_session
    \/ \E data \in OneUserCreateInputs : create_profile(OneUser, data)
    \/ \E data \in OneUserPatches : update_profile(OneUser, data)
    \/ \E data \in OneUserOverrides : override_targets(OneUser, data)
    \/ delete_profile(OneUser)
    \/ get_current_targets(OneUser)

SpecOneUser == InitOneUser /\ [][NextOneUser]_vars

(***************************************************************************)
(* Notions the properties are stated in.                                   *)
(***************************************************************************)
\* gender, activity_level and goal are all non-null
TargetEligible(profile) ==
    ~IsNone(profile.gender) /\ ~IsNone(profile.activity_level) /\ ~IsNone(profile.goal)

\* the snapshots of a profile, oldest insertion first
SnapshotsOf(profile_id) == SelectSeq(user_targets, LAMBDA t : t.profile_id = profile_id)

\* the trigger fields, as the specification lists them
TriggerFields == {"weight", "goal", "gender", "activity_level", "date_of_birth"}

\* the step appends exactly the one row t to user_targets
InsertsExactly(t) ==
    /\ user_targets' = Append(user_targets, t)
    /\ targets_id_seq' = targets_id_seq + 1

\* the step inserts no snapshot and leaves the snapshots as they are
InsertsNothing ==
    /\ user_targets' = user_targets
    /\ targets_id_seq' = targets_id_seq

(***************************************************************************)
(* C1.  create_profile for a user with no profile: when the submitted      *)
(* gender, activity_level and goal are all non-null, exactly one snapshot  *)
(* is inserted, for the new profile, with is_manual = false and            *)
(* based_on_weight / based_on_goal the submitted weight and goal; when one *)
(* of the three is null, the profile is created and no snapshot is         *)
(* inserted.                                                               *)
(***************************************************************************)
C1_CreateCase(user, data) ==
    (IsNone(SelectProfile(user)) /\ create_profile(user, data)) =>
        /\ response'.status = 201
        /\ \E p \in user_profiles' :
              /\ user_profiles' = user_profiles \cup {p}
              /\ p \notin user_profiles
              /\ p.user_id = user
              /\ \A f \in ProfileFields : p[f] = data[f]
              /\ IF ~IsNone(data.gender) /\ ~IsNone(data.activity_level) /\ ~IsNone(data.goal)
                 THEN \E t \in {user_targets'[i] : i \in 1..Len(user_targets')} :
                         /\ InsertsExactly(t)
                         /\ t.profile_id = p.id
                         /\ t.is_manual = FALSE
                         /\ t.based_on_weight = data.weight[1]
                         /\ t.based_on_goal = data.goal[1]
                 ELSE InsertsNothing

C1_CreateInsertsOneSnapshotIffEligible ==
    [][request'.op = "create_profile" =>
          \A user \in Users : \A data \in CreateInputsOf(user) : C1_CreateCase(user, data)]_vars

\* a profile of eligible data has just been created and holds its one snapshot
C1_Witness ==
    /\ request.op = "create_profile"
    /\ response.status = 201
    /\ TargetEligible(response.body[1])
    /\ Len(SnapshotsOf(response.body[1].id)) = 1
    /\ SnapshotsOf(response.body[1].id)[1].is_manual = FALSE

(***************************************************************************)
(* C2.  update_profile: when the patch contains at least one of weight,    *)
(* goal, gender, activity_level, date_of_birth and the profile after       *)
(* applying the patch has non-null gender, activity_level and goal,        *)
(* exactly one new snapshot is inserted, with is_manual = false and        *)
(* based_on_weight / based_on_goal the post-update weight and goal.        *)
(***************************************************************************)
\* the patches update_profile is given for this user
PatchesOf(user) ==
    UNION {{<<D, template>> : template \in PatchTemplates(D)} : D \in PatchDomainsOf(user)}

\* exactly one computed snapshot of `profile` is appended
InsertsComputedSnapshotOf(profile) ==
    \E t \in {user_targets'[i] : i \in 1..Len(user_targets')} :
        /\ InsertsExactly(t)
        /\ t.profile_id = profile.id
        /\ t.is_manual = FALSE
        /\ t.based_on_weight = profile.weight[1]
        /\ t.based_on_goal = profile.goal[1]

C2_UpdateCase(user, data) ==
    LET found == SelectProfile(user)
    IN  (/\ ~IsNone(found)
         /\ update_profile(user, data)
         /\ DOMAIN data \cap TriggerFields # {}
         /\ TargetEligible(SetAttrs(found[1], data)))
        => InsertsComputedSnapshotOf(SetAttrs(found[1], data))

C2_UpdateInsertsOneSnapshot ==
    [][request'.op = "update_profile" =>
          \A user \in Users : \A pt \in PatchesOf(user) :
              C2_UpdateCase(user, ModelDump(pt[1], pt[2]))]_vars

\* C2 for the patches the flush accepts: those that set none of weight,
\* height, date_of_birth to null
C2_AcceptedUpdateInsertsOneSnapshot ==
    [][request'.op = "update_profile" =>
          \A user \in Users : \A pt \in PatchesOf(user) :
              LET data == ModelDump(pt[1], pt[2])
              IN  (\A f \in DOMAIN data \cap NotNullFields : ~IsNone(data[f]))
                  => C2_UpdateCase(user, data)]_vars

(***************************************************************************)
(* C3.  update_profile with a patch that contains none of weight, goal,    *)
(* gender, activity_level, date_of_birth (only height, or nothing) inserts *)
(* no snapshot, eligible profile or not: the snapshots are unchanged.      *)
(***************************************************************************)
C3_NonTriggerUpdateInsertsNothing ==
    [][(request'.op = "update_profile" /\ request'.fields \cap TriggerFields = {})
          => InsertsNothing]_vars

\* a height-only patch has been applied to an eligible profile that has a snapshot
C3_Witness ==
    /\ request.op = "update_profile"
    /\ request.fields = {"height"}
    /\ response.status = 200
    /\ TargetEligible(response.body[1])
    /\ SnapshotsOf(response.body[1].id) # << >>

(***************************************************************************)
(* C4.  update_profile with a patch that contains a trigger field but      *)
(* leaves the profile with a null gender, activity_level or goal inserts   *)
(* no snapshot.                                                            *)
(***************************************************************************)
C4_IneligibleUpdateInsertsNothing ==
    [][(/\ request'.op = "update_profile"
        /\ request'.fields \cap TriggerFields # {}
        /\ \E p \in user_profiles' : p.user_id = request'.user /\ ~TargetEligible(p))
          => InsertsNothing]_vars

\* a patch with a trigger field has been applied and has left a profile that
\* was eligible before (it has a computed snapshot) without one of the three
C4_Witness ==
    /\ request.op = "update_profile"
    /\ request.fields \cap TriggerFields # {}
    /\ response.status = 200
    /\ ~TargetEligible(response.body[1])
    /\ \E i \in 1..Len(user_targets) :
          /\ user_targets[i].profile_id = response.body[1].id
          /\ ~user_targets[i].is_manual

(***************************************************************************)
(* C5.  override_targets on an existing profile with a valid request       *)
(* always inserts exactly one new snapshot with is_manual = true, eligible *)
(* profile or not, snapshots present or not; its based_on_goal is "manual" *)
(* when the profile's goal is null and the goal's value otherwise, its     *)
(* based_on_weight the profile's current weight.                           *)
(***************************************************************************)
C5_OverrideCase(user, data) ==
    LET found == SelectProfile(user)
    IN  (/\ ~IsNone(found)
         /\ data.calories # None /\ data.calories[1] > 0
         /\ \A f \in {"protein_g", "fat_g", "carbs_g"} : data[f] = None \/ data[f][1] > 0
         /\ override_targets(user, data))
        => /\ response'.status = 200
           /\ \E t \in {user_targets'[i] : i \in 1..Len(user_targets')} :
                 /\ InsertsExactly(t)
                 /\ response'.body = <<t>>
                 /\ t.profile_id = found[1].id
                 /\ t.is_manual = TRUE
                 /\ t.based_on_weight = found[1].weight[1]
                 /\ t.based_on_goal = (IF found[1].goal = None THEN "manual" ELSE found[1].goal[1])
                 /\ t.calories = data.calories[1]
           /\ user_profiles' = user_profiles

C5_OverrideInsertsOneManualSnapshot ==
    [][request'.op = "override_targets" =>
          \A user \in Users : \A data \in OverrideInputs : C5_OverrideCase(user, data)]_vars

\* an override has given a profile without goal, hence without computed
\* snapshot, its first snapshot, tagged "manual"
C5_Witness ==
    /\ request.op = "override_targets"
    /\ response.status = 200
    /\ response.body[1].is_manual
    /\ response.body[1].based_on_goal = "manual"
    /\ Len(SnapshotsOf(response.body[1].profile_id)) = 1
    /\ \E p \in user_profiles : p.id = response.body[1].profile_id /\ ~TargetEligible(p)

(***************************************************************************)
(* C6.  The snapshot history is append-only: over every step that is not a *)
(* delete_profile, each snapshot that existed before the step exists after *)
(* it with the same field values, and a snapshot added for a profile has   *)
(* an id greater than every snapshot already in that profile's history.    *)
(***************************************************************************)
C6_HistoryAppendOnly ==
    [][request'.op # "delete_profile" =>
          /\ Len(user_targets') >= Len(user_targets)
          /\ SubSeq(user_targets', 1, Len(user_targets)) = user_targets
          /\ \A i \in (Len(user_targets) + 1)..Len(user_targets') :
                \A j \in 1..Len(user_targets) :
                    user_targets[j].profile_id = user_targets'[i].profile_id
                        => user_targets'[i].id > user_targets[j].id]_vars

\* an update or an override has added a snapshot to a history that had one
C6_Witness ==
    /\ request.op \in {"update_profile", "override_targets"}
    /\ response.status = 200
    /\ \E p \in user_profiles :
          /\ p.user_id = request.user
          /\ Len(SnapshotsOf(p.id)) >= 2
          /\ SnapshotsOf(p.id)[Len(SnapshotsOf(p.id))].id = targets_id_seq

(***************************************************************************)
(* C7.  get_current_targets on an existing profile returns the snapshot    *)
(* with the highest id of that profile, which is the one inserted last for *)
(* it (computed or manual); it returns not-found exactly when the profile  *)
(* has no snapshot.                                                        *)
(***************************************************************************)
C7_CurrentIsNewest ==
    (request.op = "get_current_targets") =>
        \A p \in user_profiles :
            p.user_id = request.user =>
                LET history == SnapshotsOf(p.id)
                IN  IF history = << >>
                    THEN response.status = 404 /\ response.body = << >>
                    ELSE /\ response.status = 200
                         /\ response.body = <<history[Len(history)]>>
                         /\ \A i \in 1..Len(user_targets) :
                               user_targets[i].profile_id = p.id
                                   => user_targets[i].id <= response.body[1].id

\* the current targets of a profile with two snapshots have been read
C7_Witness ==
    /\ request.op = "get_current_targets"
    /\ response.status = 200
    /\ Len(SnapshotsOf(response.body[1].profile_id)) >= 2

(***************************************************************************)
(* C8.  get_targets_history on an existing profile returns every snapshot  *)
(* of that profile and no other, newest first (strictly descending id,     *)
(* the reverse of the insertion order); the empty list when the profile    *)
(* has no snapshot.                                                        *)
(***************************************************************************)
C8_HistoryNewestFirst ==
    (request.op = "get_targets_history") =>
        \A p \in user_profiles :
            p.user_id = request.user =>
                LET history == SnapshotsOf(p.id)
                    n == Len(history)
                IN  /\ response.status = 200
                    /\ Len(response.body) = n
                    /\ \A i \in 1..n : response.body[i] = history[n + 1 - i]
                    /\ \A i \in 1..n : response.body[i].profile_id = p.id
                    /\ \A i \in 1..(n - 1) : response.body[i].id > response.body[i + 1].id

\* a history of two snapshots has been read, the newer one first
C8_Witness ==
    /\ request.op = "get_targets_history"
    /\ response.status = 200
    /\ Len(response.body) >= 2
    /\ response.body[1].id > response.body[2].id

(***************************************************************************)
(* C9.  delete_profile removes the profile and every snapshot belonging to *)
(* it and creates none; afterwards no snapshot references that profile,    *)
(* and get_current_targets / get_targets_history of a user who has no      *)
(* profile answer not-found.  The snapshots of other profiles stay.        *)
(***************************************************************************)
C9_DeleteCase(user) ==
    LET found == SelectProfile(user)
    IN  (~IsNone(found) /\ delete_profile(user))
        => /\ response'.status = 204
           /\ user_profiles' = user_profiles \ {found[1]}
           /\ \A i \in 1..Len(user_targets') : user_targets'[i].profile_id # found[1].id
           /\ user_targets' = SelectSeq(user_targets, LAMBDA t : t.profile_id # found[1].id)
           /\ targets_id_seq' = targets_id_seq
           /\ profile_id_seq' = profile_id_seq

C9_DeleteRemovesProfileAndSnapshots ==
    [][/\ request'.op = "delete_profile" => \A user \in Users : C9_DeleteCase(user)
       /\ \A i \in 1..Len(user_targets') :
             \E p \in user_profiles' : p.id = user_targets'[i].profile_id
       /\ (/\ request'.op \in {"get_current_targets", "get_targets_history"}
           /\ \A p \in user_profiles' : p.user_id # request'.user)
          => response'.status = 404 /\ response'.body = << >>]_vars

\* of the two profiles ever created, the one that owned snapshot 2 has just
\* been deleted with it, and snapshot 1 of the other profile is left
C9_Witness ==
    /\ request.op = "delete_profile"
    /\ response.status = 204
    /\ profile_id_seq = 2 /\ Cardinality(user_profiles) = 1
    /\ targets_id_seq = 2 /\ Len(user_targets) = 1
    /\ user_targets[1].id = 1

(***************************************************************************)
(* C10.  create_profile for a user who already has a profile is refused    *)
(* with a conflict (409); the profile's fields and its snapshot history    *)
(* are unchanged and no snapshot is inserted.                              *)
(***************************************************************************)
C10_DuplicateCreateRefused ==
    [][(/\ request'.op = "create_profile"
        /\ \E p \in user_profiles : p.user_id = request'.user)
       => /\ response'.status = 409
          /\ response'.body = << >>
          /\ user_profiles' = user_profiles
          /\ user_targets' = user_targets
          /\ targets_id_seq' = targets_id_seq
          /\ profile_id_seq' = profile_id_seq]_vars

\* a second create has been refused for a user whose profile has a snapshot
C10_Witness ==
    /\ request.op = "create_profile"
    /\ response.status = 409
    /\ \E p \in user_profiles : p.user_id = request.user /\ SnapshotsOf(p.id) # << >>

(***************************************************************************)
(* C11.  In every reachable state each user has at most one profile, also  *)
(* when two create_profile requests of the same user overlap and both pass *)
(* the existence check before either inserts.                              *)
(***************************************************************************)
C11_AtMostOneProfilePerUser ==
    \A user \in Users : Cardinality({p \in user_profiles : p.user_id = user}) <= 1

\* two creations of the same user both passed the existence check; one has
\* committed its profile, the other failed on the unique index
C11_Witness ==
    \E s \in Sessions : \E o \in Sessions \ {s} :
        /\ sessions[s].op = "create_profile" /\ sessions[o].op = "create_profile"
        /\ sessions[s].user = sessions[o].user
        /\ sessions[s].status = 201 /\ sessions[s].pc = "done"
        /\ sessions[o].status = 500
        /\ \E p \in user_profiles : p.user_id = sessions[s].user

(***************************************************************************)
(* C12.  Two update_profile requests on the same profile that overlap      *)
(* never double-insert or drop a snapshot: the result is the result of     *)
(* running the two updates in some serial order, one snapshot for each     *)
(* update whose patch has a trigger field and leaves the profile eligible, *)
(* computed from a profile that includes the updates before it.            *)
(***************************************************************************)
\* one update run alone on (profile, snapshots): the patch applied, and one
\* snapshot computed from the patched profile when the patch has a trigger
\* field and the patched profile is eligible
SerialUpdate(state, data) ==
    LET profile == [f \in DOMAIN state.profile |->
                       IF f \in DOMAIN data THEN data[f] ELSE state.profile[f]]
    IN  [profile |-> profile,
         snapshots |-> IF DOMAIN data \cap TriggerFields # {} /\ TargetEligible(profile)
                       THEN Append(state.snapshots,
                                   UserTargets(0, profile.id,
                                               calculate_targets(profile.weight[1], profile.height[1],
                                                                 calculate_age(profile.date_of_birth[1], Today),
                                                                 profile.gender[1],
                                                                 profile.activity_level[1],
                                                                 profile.goal[1]),
                                               profile.weight[1], profile.goal[1], FALSE))
                       ELSE state.snapshots]

RECURSIVE SortedById(_)
\* rows by ascending id
SortedById(rows) ==
    IF rows = << >> THEN << >>
    ELSE LET i == CHOOSE k \in 1..Len(rows) : \A j \in 1..Len(rows) : rows[k].id <= rows[j].id
         IN  <<rows[i]>> \o SortedById(SubSeq(rows, 1, i - 1) \o SubSeq(rows, i + 1, Len(rows)))

\* the committed profile with this id and the snapshots it got after the id
\* sequence stood at `seen`, oldest id first, their ids left out
CommittedSince(profile_id, seen) ==
    LET rows == SortedById(SelectSeq(user_targets,
                                     LAMBDA t : t.profile_id = profile_id /\ t.id > seen))
    IN  [profile |-> CHOOSE p \in user_profiles : p.id = profile_id,
         snapshots |-> [i \in 1..Len(rows) |-> [rows[i] EXCEPT !.id = 0]]]

\* sessions s and o are two answered updates that selected the same committed
\* row, o while the handler of s was running, with nothing inserted between
\* their selects
OverlappingUpdates(s, o) ==
    /\ sessions[s].op = "update_profile" /\ sessions[o].op = "update_profile"
    /\ sessions[s].pc = "done" /\ sessions[o].pc = "done"
    /\ sessions[s].status = 200 /\ sessions[o].status = 200
    /\ sessions[s].loaded = sessions[o].loaded
    /\ sessions[s].seen = sessions[o].seen
    /\ s \in sessions[o].met

C12_OverlappingUpdatesSerializable ==
    \A s \in Sessions : \A o \in Sessions \ {s} :
        OverlappingUpdates(s, o) =>
            LET base == [profile |-> sessions[s].loaded[1], snapshots |-> << >>]
                result == CommittedSince(sessions[s].loaded[1].id, sessions[s].seen)
            IN  \/ result = SerialUpdate(SerialUpdate(base, sessions[s].data), sessions[o].data)
                \/ result = SerialUpdate(SerialUpdate(base, sessions[o].data), sessions[s].data)

(***************************************************************************)
(* C13.  From a user with no profile, the sequence create (eligible        *)
(* profile), update(weight), update(goal), manual override, update(weight) *)
(* (weights and goals set to values) gives a history of exactly 5          *)
(* snapshots whose is_manual flags, newest first, are                      *)
(* [false, true, false, false, false]; each request of the sequence adds   *)
(* its one snapshot.                                                       *)
(***************************************************************************)
\* the is_manual flags of rows, in the order of rows
IsManualFlags(rows) == [i \in 1..Len(rows) |-> rows[i].is_manual]

\* the flags of the five snapshots, oldest first
C13_FlagsOldestFirst == <<FALSE, FALSE, FALSE, TRUE, FALSE>>

C13_ScenarioHistory ==
    LET flags == IsManualFlags(user_targets)
        after(n) == flags = SubSeq(C13_FlagsOldestFirst, 1, n)
    IN  /\ request.op = "create_profile" => response.status = 201 /\ after(1)
        /\ (request.op = "update_profile" /\ request.fields = {"weight"})
               => response.status = 200 /\ (after(2) \/ after(5))
        /\ (request.op = "update_profile" /\ request.fields = {"goal"})
               => response.status = 200 /\ after(3)
        /\ request.op = "override_targets" => response.status = 200 /\ after(4)
        /\ request.op = "get_targets_history"
               => /\ response.status = 200
                  /\ Len(user_targets) = 5
                  /\ Len(response.body) = 5
                  /\ IsManualFlags(response.body) = <<FALSE, TRUE, FALSE, FALSE, FALSE>>

\* the client has read the history at the end of its sequence
C13_Witness ==
    /\ request.op = "get_targets_history"
    /\ response.status = 200
    /\ Len(response.body) = 5
    /\ response.body[2].is_manual

(***************************************************************************)
(* C14.  An override request whose calories is missing or not > 0, or that *)
(* supplies a protein_g, fat_g or carbs_g that is not > 0, is rejected as  *)
(* a validation failure (422) before the override runs: no snapshot is     *)
(* inserted, the profile and the history are unchanged.                    *)
(***************************************************************************)
C14_Rejected(data) ==
    \/ data.calories = None
    \/ data.calories # None /\ data.calories[1] <= 0
    \/ \E f \in {"protein_g", "fat_g", "carbs_g"} : data[f] # None /\ data[f][1] <= 0

C14_InvalidOverrideRejected ==
    [][request'.op = "override_targets" =>
          \A user \in Users : \A data \in OverrideInputs :
              (C14_Rejected(data) /\ override_targets(user, data))
                  => /\ response'.status = 422
                     /\ response'.body = << >>
                     /\ user_profiles' = user_profiles
                     /\ user_targets' = user_targets
                     /\ targets_id_seq' = targets_id_seq]_vars

\* an override has been rejected for a user whose profile has a snapshot
C14_Witness ==
    /\ request.op = "override_targets"
    /\ response.status = 422
    /\ \E p \in user_profiles : p.user_id = request.user /\ SnapshotsOf(p.id) # << >>

(***************************************************************************)
(* C15.  For a user with no profile, each of update_profile,               *)
(* delete_profile, override_targets, get_profile, get_current_targets and  *)
(* get_targets_history answers not-found (404) and creates neither a       *)
(* profile nor a snapshot: the stored state is unchanged.  (An override    *)
(* body that fails validation is answered 422 before the handler runs, as  *)
(* C14 says; the not-found answer is that of a request that reaches the    *)
(* handler.)                                                               *)
(***************************************************************************)
C15_NoProfileCase(user) ==
    /\ request'.op \in {"update_profile", "delete_profile", "get_profile",
                        "get_current_targets", "get_targets_history"}
           => /\ response'.status = 404
              /\ response'.body = << >>
    /\ request'.op = "override_targets"
           => /\ response'.body = << >>
              /\ \A data \in OverrideInputs :
                    (~C14_Rejected(data) /\ override_targets(user, data))
                        => response'.status = 404
    /\ request'.op # "create_profile"
           => /\ user_profiles' = user_profiles
              /\ user_targets' = user_targets
              /\ profile_id_seq' = profile_id_seq
              /\ targets_id_seq' = targets_id_seq

C15_NoProfileNotFound ==
    [][\A user \in Users :
          (request'.user = user /\ \A p \in user_profiles : p.user_id # user)
              => C15_NoProfileCase(user)]_vars

\* an override of a user with no profile has been answered not-found while
\* the other user has a profile and a snapshot
C15_Witness ==
    /\ request.op = "override_targets"
    /\ response.status = 404
    /\ \A p \in user_profiles : p.user_id # request.user
    /\ user_profiles # {}
    /\ user_targets # << >>

(***************************************************************************)
(* C16.  calculate_tdee(bmr, level) equals round(bmr x m, 2) where m is    *)
(* 1.0 for sedentary, 1.2 for lightly active, 1.35 for moderately active,  *)
(* 1.45 for very active and 1.8 for athlete; in particular                 *)
(* calculate_tdee(1780.0, moderately_active) = 2403.0.                     *)
(***************************************************************************)
C16_Multiplier ==
    [sedentary |-> 1000, lightly_active |-> 1200, moderately_active |-> 1350,
     very_active |-> 1450, athlete |-> 1800]

C17_Multiplier ==
    [sedentary |-> 1200, lightly_active |-> 1375, moderately_active |-> 1550,
     very_active |-> 1725, athlete |-> 1900]

C17_TdeeMultipliersOfTests ==
    /\ calc.fn = "calculate_tdee" =>
          /\ calc.result = RoundDiv(calc.args[1] * C17_Multiplier[calc.args[2]], 1000)
          /\ calc.args = <<178000, "moderately_active">> => calc.result = 275900
    /\ (/\ calc.fn = "calculate_targets"
        /\ \E goal \in {"maintain", "recomp"} :
              calc.args = <<8000, 18000, 30, "male", "moderately_active", goal>>)
          => calc.result.calories = 275900

(***************************************************************************)
(* The doubles behind the two-decimal results.  round(x, 2) returns the    *)
(* double nearest to k/100; for 2^e <= k/100 < 2^(e+1) that double is      *)
(* M / 2^(52-e) with M the integer nearest to k * 2^(52-e) / 100.          *)
(* FloatError(k) is its distance from k/100, in units of 1/(100 * 2^52).   *)
(***************************************************************************)
RECURSIVE ExponentFrom(_, _)
ExponentFrom(k, e) == IF k < 200 * 2^e THEN e ELSE ExponentFrom(k, e + 1)

\* floor(log2(k/100)) of a result of at least 1.00
Exponent(k) == ExponentFrom(k, 0)

RECURSIVE Pow2Mod100(_)
Pow2Mod100(p) == IF p = 0 THEN 1 ELSE (2 * Pow2Mod100(p - 1)) % 100

FloatError(k) ==
    LET e == Exponent(k)
        t == ((k % 100) * Pow2Mod100(52 - e)) % 100
    IN  (IF t < 50 THEN 0 - t ELSE 100 - t) * 2^e

\* male - female of two doubles, less (m - f)/100, in units of 1/(100 * 2^52);
\* the subtraction itself is exact while f is at least half of m
FloatDifferenceError(m, f) == FloatError(m) - FloatError(f)

\* the male and the female result for the arguments of the call in calc
BmrOf(gender) ==
    IF calc.args[4] = gender THEN calc.result
    ELSE calculate_bmr(calc.args[1], calc.args[2], calc.args[3], gender)

(***************************************************************************)
(* C18 as stated.  For all weight, height and age, calculate_bmr(male) -   *)
(* calculate_bmr(female) equals exactly 166.0: the two results are 166.00  *)
(* apart and the subtraction of the two doubles yields the double 166.0.   *)
(***************************************************************************)
C18_DifferenceExactly166 ==
    calc.fn = "calculate_bmr" =>
        /\ BmrOf("male") - BmrOf("female") = 16600
        /\ FloatDifferenceError(BmrOf("male"), BmrOf("female")) = 0

(***************************************************************************)
(* C18 amended.  The two results, round(10w + 6.25h - 5a + 5, 2) and       *)
(* round(10w + 6.25h - 5a - 161, 2), are 166.00 apart as two-decimal       *)
(* numbers; male - female computed on the doubles is within one unit in    *)
(* the last place of the male result of 166.0, and is exactly 166.0 when   *)
(* the results are whole numbers.                                          *)
(***************************************************************************)
C18_DifferenceIs166ToOneUlp ==
    calc.fn = "calculate_bmr" =>
        LET m == BmrOf("male")
            f == BmrOf("female")
            err == FloatDifferenceError(m, f)
        IN  /\ calc.result = RoundDiv(1000 * calc.args[1] + 625 * calc.args[2]
                                      - 50000 * calc.args[3]
                                      + (IF calc.args[4] = "male" THEN 50000 ELSE 0 - 1610000),
                                      100)
            /\ m - f = 16600
            /\ err <= 100 * 2^Exponent(m)
            /\ 0 - err <= 100 * 2^Exponent(m)
            /\ m % 100 = 0 => err = 0

\* calculate_bmr(40.0, 165.5, 60, male) = 1139.38, female 973.38:
\* 1139.38 - 973.38 is 166.0000000000001
C18_Witness ==
    /\ calc = [fn |-> "calculate_bmr", args |-> <<4000, 16550, 60, "male">>,
               result |-> 113938]
    /\ BmrOf("female") = 97338
    /\ FloatDifferenceError(113938, 97338) = 51200

(***************************************************************************)
(* C19.  calculate_age(dob, ref) is ref.year - dob.year, minus 1 exactly   *)
(* when (ref.month, ref.day) < (dob.month, dob.day) lexicographically.  A  *)
(* birthday that falls on the reference date counts as reached; a birth    *)
(* date of Feb 29 evaluated on Feb 28 of a later year counts as not yet    *)
(* reached.  calculate_age(1990-01-01, 2026-02-26) = 36 and                *)
(* calculate_age(1990-02-27, 2026-02-26) = 35.                             *)
(***************************************************************************)
C19_AgeInWholeYears ==
    calc.fn = "calculate_age" =>
        LET dob == calc.args[1]
            ref == calc.args[2]
            years == ref[1] - dob[1]
            less == ref[2] < dob[2] \/ (ref[2] = dob[2] /\ ref[3] < dob[3])
        IN  /\ calc.result = IF less THEN years - 1 ELSE years
            /\ (ref[2] = dob[2] /\ ref[3] = dob[3]) => calc.result = years
            /\ (dob[2] = 2 /\ dob[3] = 29 /\ ref[2] = 2 /\ ref[3] = 28)
                  => calc.result = years - 1
            /\ calc.args = <<<<1990, 1, 1>>, <<2026, 2, 26>>>> => calc.result = 36
            /\ calc.args = <<<<1990, 2, 27>>, <<2026, 2, 26>>>> => calc.result = 35
            /\ calc.args = <<<<1990, 2, 26>>, <<2026, 2, 26>>>> => calc.result = 36

\* born on Feb 29 of 2000, asked on Feb 28 of 2026: still 25
C19_Witness ==
    calc = [fn |-> "calculate_age", args |-> <<<<2000, 2, 29>>, <<2026, 2, 28>>>>,
            result |-> 25]

(***************************************************************************)
(* The values C20 states for the call in calc: calories from the TDEE and  *)
(* the goal's multiplier, protein and fat from the weight alone, carbs     *)
(* from what is left of the calories, without a floor.                     *)
(***************************************************************************)
C20_GoalMultiplier == [cut |-> 825, maintain |-> 1000, bulk |-> 1150, recomp |-> 1000]

C20_Tdee == calculate_tdee(calculate_bmr(calc.args[1], calc.args[2], calc.args[3], calc.args[4]),
                           calc.args[5])

C20_Formulas ==
    /\ calc.result.calories = RoundDiv(C20_Tdee * C20_GoalMultiplier[calc.args[6]], 1000)
    /\ calc.result.protein_g = RoundDiv(calc.args[1] * 22, 10)
    /\ calc.result.fat_g = RoundDiv(calc.args[1] * 8, 10)
    /\ calc.result.carbs_g =
          RoundDiv(calc.result.calories - calc.result.protein_g * 4 - calc.result.fat_g * 9, 4)

\* calories - protein_g x 4 - fat_g x 9 of the result in calc
C20_Remaining ==
    calc.result.calories - calc.result.protein_g * 4 - calc.result.fat_g * 9

(***************************************************************************)
(* C20 as stated.  calculate_targets returns calories = round(TDEE x       *)
(* goal multiplier, 2) with cut 0.825, maintain 1.0, bulk 1.15 and recomp  *)
(* 1.0; protein_g = round(weight x 2.2, 2) and fat_g = round(weight x 0.8, *)
(* 2) whatever the goal, sex and activity level; carbs_g = round((calories *)
(* - protein_g x 4 - fat_g x 9) / 4, 2) with no floor, so that carbs_g is  *)
(* negative whenever calories < protein_g x 4 + fat_g x 9.                 *)
(***************************************************************************)
C20_NegativeWheneverBelow ==
    calc.fn = "calculate_targets" =>
        /\ C20_Formulas
        /\ C20_Remaining < 0 => calc.result.carbs_g < 0

(***************************************************************************)
(* C20 amended.  The same formulas, with no floor on carbs_g; carbs_g is   *)
(* never positive when calories < protein_g x 4 + fat_g x 9, and it is     *)
(* negative when calories is at least 0.03 below protein_g x 4 + fat_g x   *)
(* 9: a shortfall of 0.01 rounds to a carbs_g of zero.                     *)
(***************************************************************************)
C20_NegativeWhenBelowByThreeHundredths ==
    calc.fn = "calculate_targets" =>
        /\ C20_Formulas
        /\ C20_Remaining < 0 => calc.result.carbs_g <= 0
        /\ C20_Remaining <= 0 - 3 => calc.result.carbs_g < 0
        /\ C20_Remaining = 0 - 1 => calc.result.carbs_g = 0

\* calculate_targets(200, 150, 60, female, sedentary, cut): 2043.11 kcal against
\* 3200 kcal of protein and fat, carbs_g = -289.22
C20_Witness ==
    /\ calc.fn = "calculate_targets"
    /\ calc.args = <<20000, 15000, 60, "female", "sedentary", "cut">>
    /\ calc.result = [calories |-> 204311, protein_g |-> 44000, fat_g |-> 16000,
                      carbs_g |-> 0 - 28922]

(***************************************************************************)
(* The calories of the macros of the result in calc, in hundredths:        *)
(* round(protein_g x 4 + fat_g x 9 + carbs_g x 4, 2).  The three products  *)
(* are whole hundredths, so the rounding only removes the float error.     *)
(***************************************************************************)
C21_MacroCalories ==
    calc.result.protein_g * 4 + calc.result.fat_g * 9 + calc.result.carbs_g * 4

C22_ManualTargets ==
    calc.fn = "calculate_manual_targets" =>
        LET calories == calc.args[1]
            weight == calc.args[2]
            protein == IF calc.args[3] = << >> THEN RoundDiv(weight * 22, 10)
                       ELSE calc.args[3][1]
            fat == IF calc.args[4] = << >> THEN RoundDiv(weight * 8, 10)
                   ELSE calc.args[4][1]
            left == calories - protein * 4 - fat * 9
        IN  /\ calc.result.calories = calories
            /\ calc.result.protein_g = protein
            /\ calc.result.fat_g = fat
            /\ calc.args[5] # << >> => calc.result.carbs_g = calc.args[5][1]
            /\ calc.args[5] = << >> =>
                  /\ calc.result.carbs_g = RoundDiv(IF left > 0 THEN left ELSE 0, 4)
                  /\ calc.result.carbs_g >= 0
            /\ calc.args = <<50000, 8000, << >>, << >>, << >>>> => calc.result.carbs_g = 0

\* calculate_manual_targets(calories=500, weight_kg=80): 500 kcal against 1280
\* kcal of protein and fat, carbs_g clamped to 0
C22_Witness ==
    calc = [fn |-> "calculate_manual_targets",
            args |-> <<50000, 8000, << >>, << >>, << >>>>,
            result |-> [calories |-> 50000, protein_g |-> 17600, fat_g |-> 6400,
                        carbs_g |-> 0]]

(***************************************************************************)
(* C23.  Profiles and snapshots are isolated per user.  A request of user  *)
(* A reads and writes only A's profile and A's snapshots: it leaves the    *)
(* profile and the snapshots of every other user as they are, and what it  *)
(* returns holds rows of A only; so what B reads is B's own profile and    *)
(* history whatever A has done, and a profile created by A is not visible  *)
(* to B (B's get_profile is answered not-found while B has no profile).    *)
(* The row ids come from sequences the users share and are not compared.   *)
(***************************************************************************)
C23_ProfilesOf(profiles, user) == {p \in profiles : p.user_id = user}

C23_TargetsOf(profiles, targets, user) ==
    SelectSeq(targets, LAMBDA t : \E p \in C23_ProfilesOf(profiles, user) : p.id = t.profile_id)

\* a row of a response is a profile of the user or a snapshot of a profile of the user
C23_RowOf(row, user) ==
    IF "user_id" \in DOMAIN row THEN row.user_id = user
    ELSE \E p \in C23_ProfilesOf(user_profiles \cup user_profiles', user) :
            p.id = row.profile_id

C23_IsolatedStep(user) ==
    /\ \A other \in Users \ {user} :
          /\ C23_ProfilesOf(user_profiles', other) = C23_ProfilesOf(user_profiles, other)
          /\ C23_TargetsOf(user_profiles', user_targets', other)
                = C23_TargetsOf(user_profiles, user_targets, other)
    /\ \A i \in 1..Len(response'.body) : C23_RowOf(response'.body[i], user)
    /\ request'.op = "get_profile" =>
          /\ response'.status = 404 <=> C23_ProfilesOf(user_profiles, user) = {}
          /\ response'.status = 200 =>
                response'.body = <<CHOOSE p \in C23_ProfilesOf(user_profiles, user) : TRUE>>
    /\ (request'.op = "get_targets_history" /\ response'.status = 200) =>
          response'.body = OrderByIdDesc(C23_TargetsOf(user_profiles, user_targets, user))
    /\ (request'.op = "get_current_targets" /\ response'.status = 200) =>
          response'.body = Limit1(OrderByIdDesc(C23_TargetsOf(user_profiles, user_targets, user)))

C23_UsersIsolated ==
    [][request' # NoRequest => C23_IsolatedStep(request'.user)]_vars

\* test_users_cannot_see_each_others_profiles: one user has a profile and a
\* snapshot, and the get_profile of the other user is answered not-found
C23_Witness ==
    /\ request.op = "get_profile"
    /\ response.status = 404
    /\ \E p \in user_profiles : p.user_id # request.user
    /\ user_targets # << >>

(***************************************************************************)
(* C24.  update_profile is a partial patch: exactly the fields present in  *)
(* the request are set to the supplied values, and every profile field     *)
(* absent from the request keeps its previous value.                       *)
(***************************************************************************)
\* the stored profile of the user after the step is the one before it with
\* the fields of the patch replaced
C24_Patched(user, data) ==
    LET found == SelectProfile(user)
    IN  (~IsNone(found) /\ update_profile(user, data)) =>
            \E p \in user_profiles' :
                /\ user_profiles' = (user_profiles \ {found[1]}) \cup {p}
                /\ p.id = found[1].id
                /\ p.user_id = user
                /\ \A f \in ProfileFields :
                      p[f] = IF f \in DOMAIN data THEN data[f] ELSE found[1][f]

C24_UpdateIsPartialPatch ==
    [][request'.op = "update_profile" =>
          \A user \in Users : \A pt \in PatchesOf(user) :
              C24_Patched(user, ModelDump(pt[1], pt[2]))]_vars

\* C24 for the patches the flush accepts: those that set none of weight,
\* height, date_of_birth to null
C24_AcceptedUpdateIsPartialPatch ==
    [][request'.op = "update_profile" =>
          \A user \in Users : \A pt \in PatchesOf(user) :
              LET data == ModelDump(pt[1], pt[2])
              IN  (\A f \in DOMAIN data \cap NotNullFields : ~IsNone(data[f]))
                  => C24_Patched(user, data)]_vars

(***************************************************************************)
(* C25.  Each request is one transaction.  When a handler raises after it  *)
(* has written (a patch that sets weight, height or date_of_birth to null  *)
(* and violates NOT NULL, a snapshot insert that fails), none of the       *)
(* writes of the request persist: the committed tables change only at the  *)
(* commit of a request that returned, a request that raised leaves them as *)
(* they were; so no committed state has an eligible profile without a      *)
(* computed snapshot of its weight and goal, and a stored profile always   *)
(* has non-null weight, height and date_of_birth.                          *)
(***************************************************************************)
\* the committed profile has a computed snapshot of its weight and goal
C25_HasItsSnapshot(p) ==
    \E i \in 1..Len(user_targets) :
        /\ user_targets[i].profile_id = p.id
        /\ user_targets[i].is_manual = FALSE
        /\ user_targets[i].based_on_weight = p.weight[1]
        /\ user_targets[i].based_on_goal = p.goal[1]

C25_CommittedState ==
    \A p \in user_profiles :
        /\ \A f \in {"weight", "height", "date_of_birth"} : p[f] # << >>
        /\ (p.gender # << >> /\ p.activity_level # << >> /\ p.goal # << >>)
              => C25_HasItsSnapshot(p)

\* the committed tables change only when a request that returned commits,
\* and then by all of what it wrote
C25_OnlyCommitWrites ==
    (user_profiles' # user_profiles \/ user_targets' # user_targets) =>
        \E s \in Sessions :
            /\ sessions[s].pc = "commit"
            /\ sessions[s].status \in {200, 201}
            /\ sessions'[s].pc = "done"
            /\ user_targets' = user_targets \o sessions[s].added
            /\ sessions[s].written # << >> => sessions[s].written[1] \in user_profiles'

\* a request that raised ends with nothing of it written
C25_RaisedWritesNothing ==
    \A s \in Sessions :
        (sessions[s].pc = "rollback" /\ sessions'[s].pc = "done") =>
            /\ user_profiles' = user_profiles
            /\ user_targets' = user_targets
            /\ sessions'[s].written = << >>
            /\ sessions'[s].added = << >>

C25_RequestIsOneTransaction ==
    /\ [](C25_CommittedState)
    /\ [][C25_OnlyCommitWrites /\ C25_RaisedWritesNothing]_vars

\* an update of the weight of a committed eligible profile has raised at the
\* snapshot insert, after its UPDATE, and has been rolled back: the committed
\* profile keeps the weight of its snapshot
C25_Witness ==
    \E s \in Sessions :
        /\ sessions[s].op = "update_profile"
        /\ sessions[s].pc = "done"
        /\ sessions[s].status = 500
        /\ sessions[s].profile # << >>
        /\ \E p \in user_profiles :
              /\ p.id = sessions[s].profile[1].id
              /\ p.weight # sessions[s].profile[1].weight
              /\ C25_HasItsSnapshot(p)

(***************************************************************************)
(* C26.  After any sequence of create, update, override and delete         *)
(* operations, a profile whose gender, activity_level and goal are all     *)
(* non-null has at least one snapshot, so get_current_targets is never     *)
(* answered not-found for a target-eligible profile.                       *)
(***************************************************************************)
C26_EligibleHasSnapshot ==
    \A p \in user_profiles :
        (p.gender # << >> /\ p.activity_level # << >> /\ p.goal # << >>)
            => \E i \in 1..Len(user_targets) : user_targets[i].profile_id = p.id

C26_CurrentTargetsFound ==
    request'.op = "get_current_targets" =>
        \A p \in user_profiles :
            (/\ p.user_id = request'.user
             /\ p.gender # << >> /\ p.activity_level # << >> /\ p.goal # << >>)
                => /\ response'.status = 200
                   /\ Len(response'.body) = 1
                   /\ response'.body[1].profile_id = p.id

C26_EligibleProfileHasTargets ==
    /\ [](C26_EligibleHasSnapshot)
    /\ [][C26_CurrentTargetsFound]_vars

\* a profile created without one of the three fields has become eligible by
\* a patch of that field alone and has its first snapshot
C26_Witness ==
    /\ request.op = "update_profile"
    /\ request.fields \in {{"gender"}, {"goal"}, {"activity_level"}}
    /\ response.status = 200
    /\ TargetEligible(response.body[1])
    /\ Len(SnapshotsOf(response.body[1].id)) = 1

(***************************************************************************)
(* C27.  After any sequence of operations, if a profile is target-eligible *)
(* and its newest snapshot has is_manual = false, that snapshot's          *)
(* based_on_weight is the profile's current weight and its based_on_goal   *)
(* the profile's current goal.                                             *)
(***************************************************************************)
\* the snapshot of the profile with the highest id is computed
C27_NewestIsComputed(p, t) ==
    /\ t.profile_id = p.id
    /\ t.is_manual = FALSE
    /\ \A j \in 1..Len(user_targets) :
          user_targets[j].profile_id = p.id => user_targets[j].id <= t.id

C28_RepeatedCase(data) ==
    LET found == SelectProfile(OneUser)
    IN  (/\ found # << >>
         /\ update_profile(OneUser, data)
         /\ \A f \in DOMAIN data : data[f] = found[1][f]
         /\ DOMAIN data \cap {"weight", "goal", "gender", "activity_level", "date_of_birth"} # {}
         /\ found[1].gender # << >> /\ found[1].activity_level # << >>
         /\ found[1].goal # << >>)
        => /\ response'.status = 200
           /\ user_profiles' = user_profiles
           /\ Len(user_targets') = Len(user_targets) + 1
           /\ SubSeq(user_targets', 1, Len(user_targets)) = user_targets
           /\ LET t == user_targets'[Len(user_targets')]
              IN  /\ t.profile_id = found[1].id
                  /\ t.id = targets_id_seq + 1
                  /\ t.is_manual = FALSE
                  /\ t.based_on_weight = found[1].weight[1]
                  /\ t.based_on_goal = found[1].goal[1]

C28_SameValueStillTriggers ==
    [][request'.op = "update_profile" =>
          \A data \in OneUserPatches : C28_RepeatedCase(data)]_vars

\* the weight the profile was created with has been patched in twice more:
\* three computed snapshots of the same weight and goal
C28_Witness ==
    /\ request.op = "update_profile"
    /\ request.fields = {"weight"}
    /\ response.status = 200
    /\ Len(user_targets) = 3
    /\ \A i \in 1..3 :
          /\ user_targets[i].profile_id = response.body[1].id
          /\ user_targets[i].id = i
          /\ user_targets[i].is_manual = FALSE
          /\ user_targets[i].based_on_weight = response.body[1].weight[1]
          /\ user_targets[i].based_on_goal = user_targets[1].based_on_goal
          /\ user_targets[i].calories = user_targets[1].calories

(***************************************************************************)
(* C29.  A patch that explicitly sets gender, goal or activity_level to    *)
(* null on an eligible profile makes the profile ineligible without        *)
(* inserting or removing a snapshot; the current target stays the          *)
(* previously newest snapshot, and later updates of weight or              *)
(* date_of_birth insert no snapshot until all three fields are non-null    *)
(* again.                                                                  *)
(***************************************************************************)
C29_Three == {"gender", "goal", "activity_level"}

C29_Eligible(p) == \A f \in C29_Three : p[f] # << >>

\* the snapshot of the profile with the highest id, as a sequence of at most one
C29_Newest(profile_id) ==
    LET ids == {user_targets[i].id : i \in {j \in 1..Len(user_targets) :
                                               user_targets[j].profile_id = profile_id}}
    IN  IF ids = {} THEN << >>
        ELSE <<CHOOSE t \in {user_targets[i] : i \in 1..Len(user_targets)} :
                   t.profile_id = profile_id /\ \A k \in ids : k <= t.id>>

C29_Case(user, data) ==
    LET found == SelectProfile(user)
    IN  /\ \* the patch that sets one of the three to null
           (/\ found # << >>
            /\ update_profile(user, data)
            /\ C29_Eligible(found[1])
            /\ \E f \in DOMAIN data \cap C29_Three : data[f] = << >>
            /\ \A f \in DOMAIN data \cap {"weight", "height", "date_of_birth"} :
                  data[f] # << >>)
           => /\ response'.status = 200
              /\ user_targets' = user_targets
              /\ targets_id_seq' = targets_id_seq
              /\ \E p \in user_profiles' :
                    /\ p.id = found[1].id
                    /\ ~C29_Eligible(p)
                    /\ C29_Newest(p.id) = C29_Newest(found[1].id)
        /\ \* a later update of an ineligible profile that leaves it ineligible
           (/\ found # << >>
            /\ update_profile(user, data)
            /\ ~C29_Eligible(found[1])
            /\ \E f \in C29_Three : f \notin DOMAIN data /\ found[1][f] = << >>)
           => /\ user_targets' = user_targets
              /\ targets_id_seq' = targets_id_seq

\* get_current_targets of a profile that is not eligible returns the newest
\* snapshot it has
C29_CurrentStays(user) ==
    LET found == SelectProfile(user)
    IN  (/\ found # << >>
         /\ request'.op = "get_current_targets"
         /\ request'.user = user
         /\ ~C29_Eligible(found[1])
         /\ C29_Newest(found[1].id) # << >>)
        => /\ response'.status = 200
           /\ response'.body = C29_Newest(found[1].id)

C29_NullMakesIneligible ==
    [][/\ request'.op = "update_profile" =>
             \A user \in Users : \A pt \in PatchesOf(user) :
                 C29_Case(user, ModelDump(pt[1], pt[2]))
       /\ \A user \in Users : C29_CurrentStays(user)]_vars

\* a profile that had a snapshot and lost one of the three fields has had its
\* weight changed: it still has the one snapshot, of the weight it had
C29_Witness ==
    /\ request.op = "update_profile"
    /\ request.fields = {"weight"}
    /\ response.status = 200
    /\ LET p == response.body[1]
       IN  /\ p \in user_profiles
           /\ ~C29_Eligible(p)
           /\ Len(SnapshotsOf(p.id)) = 1
           /\ SnapshotsOf(p.id)[1].is_manual = FALSE
           /\ SnapshotsOf(p.id)[1].based_on_weight # p.weight[1]

(***************************************************************************)
(* C30: the ConnectionManager.                                             *)
(***************************************************************************)
\* the sockets of a list
C30_Listed(l) == {l[k] : k \in DOMAIN l}

\* what the socket has been sent once the broadcast of coroutine c has sent
\* to the first n sockets of its list, and nothing else was sent meanwhile
C30_SentAfter(c, ws, n) ==
    IF \E k \in 1..n : coroutines[c].list[k] = ws
    THEN Append(coroutines[c].sent_before[ws], ResponseText(coroutines[c].message))
    ELSE coroutines[c].sent_before[ws]

\* a socket of the active set has been accepted; a broadcast that is sending
\* holds the lock, the active set is still the set it listed, and its sockets
\* have been sent its text once, those it has come to, and nothing else
C30_WhileBroadcasting ==
    /\ \A ws \in active : websockets[ws].accepted
    /\ \A c \in Coroutines :
          coroutines[c].pc = "send" =>
              /\ _lock = c
              /\ active = C30_Listed(coroutines[c].list)
              /\ \A ws \in WebSockets :
                    websockets[ws].sent = C30_SentAfter(c, ws, coroutines[c].sent)

\* the step of connect under the lock adds its accepted socket and nothing
\* else; the step of disconnect removes its socket and nothing else, and
\* changes nothing when the socket is not in the set; no step changes the set
\* while a broadcast is sending; the step a broadcast returns with has sent
\* "Response: <message>" exactly once to every socket that was in the set when
\* it took the lock and nothing to any other
C30_Step ==
    /\ \A c \in Coroutines :
          /\ coroutines[c].pc = "lock" /\ coroutines'[c].pc = "returned" =>
                CASE coroutines[c].fn = "connect" ->
                         /\ websockets[coroutines[c].ws].accepted
                         /\ active' = active \cup {coroutines[c].ws}
                         /\ websockets' = websockets
                  [] coroutines[c].fn = "disconnect" ->
                         /\ active' = active \ {coroutines[c].ws}
                         /\ coroutines[c].ws \notin active => active' = active
                         /\ websockets' = websockets
                  [] coroutines[c].fn = "broadcast" ->
                         /\ active = {} /\ active' = active
                         /\ websockets' = websockets
          /\ coroutines[c].pc = "send" =>
                /\ active' = active
                /\ coroutines'[c].pc = "returned" =>
                      /\ _lock' = NoCoroutine
                      /\ \A ws \in WebSockets :
                            websockets'[ws].sent =
                                IF ws \in active
                                THEN Append(coroutines[c].sent_before[ws],
                                            "Response: " \o coroutines[c].message)
                                ELSE coroutines[c].sent_before[ws]
    /\ active' # active =>
          \E c \in Coroutines : /\ coroutines[c].pc = "lock"
                                /\ coroutines[c].fn \in {"connect", "disconnect"}
                                /\ coroutines'[c].pc = "returned"
                                /\ _lock = NoCoroutine

\* C30: connect accepts the socket and then adds it to the active set,
\* disconnect removes it and does nothing for a socket that is not in the set,
\* broadcast sends "Response: <message>" exactly once to every socket that is
\* in the active set when it holds the lock, and the three exclude each other
\* on the active set: no socket is added or removed while a broadcast sends.
C30_ConnectionManager == [](C30_WhileBroadcasting) /\ [][C30_Step]_vars

\* a broadcast to two sockets has sent to the first while the connect of a third
\* socket waits for the lock
C30_Witness ==
    /\ coroutines["c1"].pc = "send"
    /\ Cardinality(active) = 2
    /\ coroutines["c1"].sent = 1
    /\ coroutines["c2"].fn = "connect" /\ coroutines["c2"].pc = "lock"
    /\ coroutines["c2"].ws \notin active

====
